---- MODULE Spec2Model ----
(***************************************************************************)
(* Model of the subscription tracker back end: the label service (a        *)
(* per-user forest of labels kept in the labels table), the subscription   *)
(* service and the billing date calculator of the Subscription model.      *)
(*                                                                         *)
(* Conventions.  A Python dict is a TLA+ record whose DOMAIN is the set of *)
(* keys present.  A Python str is a sequence of one-character strings.     *)
(* None as a parent_id is NoParent; ids start at 1.  A date is a record    *)
(* [y, m, d].  An exception is a record [exc, msg].                        *)
(***************************************************************************)
EXTENDS Integers, Sequences, FiniteSets, TLC

VARIABLES labels, subs, lastOp, calc, requests, user_table

vars == <<labels, subs, lastOp, calc, requests, user_table>>

----------------------------------------------------------------------------
(* Bounds of the model                                                     *)

MaxDeepLabels == 6
MaxTreeLabels == 3
MaxNameLabels == 2
MaxSysLabels == 3
MaxOwnerLabels == 2
MaxOwnerSubs == 1
MaxSubs == 1
MaxValidSubs == 1
MaxUniqueSubs == 2
MaxAtomicLabels == 2
MaxAtomicSubs == 1
MaxAssocLabels == 2
MaxAssocSubs == 1
MaxHttpLabels == 2
MaxHttpSubs == 1
MaxListLabels == 3
MaxColorLabels == 1
MaxColorLen == 3
MaxPrice == 12
MaxOrderLabels == 5
MaxGraphLabels == 7
MaxRaceLabels == 6
MaxRaceTargets == 3
MaxRaceParents == 2
MaxTwinLabels == 2
MaxRegistered == 2
MaxFrameLabels == 2
MaxSteps == 2

Users == {1, 2}

----------------------------------------------------------------------------
(* Program constants                                                       *)

MAX_HIERARCHY_DEPTH == 5
NAME_MAX_LENGTH == 100
NoParent == 0

----------------------------------------------------------------------------
(* Strings                                                                 *)

LowerLetters == <<"a", "b", "c", "d", "e", "f", "g", "h", "i", "j", "k", "l", "m",
                  "n", "o", "p", "q", "r", "s", "t", "u", "v", "w", "x", "y", "z">>
UpperLetters == <<"A", "B", "C", "D", "E", "F", "G", "H", "I", "J", "K", "L", "M",
                  "N", "O", "P", "Q", "R", "S", "T", "U", "V", "W", "X", "Y", "Z">>

lower_char(c) ==
  IF \E i \in 1..Len(UpperLetters) : UpperLetters[i] = c
  THEN LowerLetters[CHOOSE i \in 1..Len(UpperLetters) : UpperLetters[i] = c]
  ELSE c

upper_char(c) ==
  IF \E i \in 1..Len(LowerLetters) : LowerLetters[i] = c
  THEN UpperLetters[CHOOSE i \in 1..Len(LowerLetters) : LowerLetters[i] = c]
  ELSE c

lower(s) == [i \in 1..Len(s) |-> lower_char(s[i])]
upper(s) == [i \in 1..Len(s) |-> upper_char(s[i])]

Whitespace == {" ", "\t", "\n"}

RECURSIVE lstrip(_)
lstrip(s) == IF s # <<>> /\ Head(s) \in Whitespace THEN lstrip(Tail(s)) ELSE s

RECURSIVE rstrip(_)
rstrip(s) ==
  IF s # <<>> /\ s[Len(s)] \in Whitespace THEN rstrip(SubSeq(s, 1, Len(s) - 1)) ELSE s

strip(s) == rstrip(lstrip(s))

DecimalDigits == <<"0", "1", "2", "3", "4", "5", "6", "7", "8", "9">>

is_digit(c) == \E i \in 1..Len(DecimalDigits) : DecimalDigits[i] = c

digit_value(c) == (CHOOSE i \in 1..Len(DecimalDigits) : DecimalDigits[i] = c) - 1

RECURSIVE digits_value(_)
digits_value(s) ==
  IF s = <<>> THEN 0
  ELSE 10 * digits_value(SubSeq(s, 1, Len(s) - 1)) + digit_value(s[Len(s)])

(* int(s) of a str: blanks around, an optional sign, decimal digits; ok is *)
(* FALSE when it raises ValueError.                                        *)
int(s) ==
  LET t == strip(s)
      digits == IF t # <<>> /\ t[1] \in {"+", "-"} THEN Tail(t) ELSE t
  IN IF digits = <<>> \/ \E i \in 1..Len(digits) : ~is_digit(digits[i])
     THEN [ok |-> FALSE, value |-> 0]
     ELSE [ok |-> TRUE,
           value |-> IF t[1] = "-" THEN 0 - digits_value(digits) ELSE digits_value(digits)]

Work == <<"W", "o", "r", "k">>
work == <<"w", "o", "r", "k">>
Play == <<"P", "l", "a", "y">>
Blank == <<" ">>
Empty == <<>>

----------------------------------------------------------------------------
(* Exceptions and error messages                                           *)

NoError == [exc |-> "none", msg |-> "none"]
Raise(e, m) == [exc |-> e, msg |-> m]

LABEL_NOT_FOUND == "Label not found"
DUPLICATE_LABEL == "A label with this name already exists"
LABEL_HIERARCHY_TOO_DEEP == "Label hierarchy cannot exceed 5 levels"
CIRCULAR_REFERENCE == "Circular reference detected in label hierarchy"
SYSTEM_LABEL_READONLY == "System labels cannot be modified or deleted"
CANNOT_DELETE_LABEL_WITH_CHILDREN == "Cannot delete a label that has child labels"
LABEL_NAME_REQUIRED == "Label name is required"
LABEL_COLOR_REQUIRED == "Label color is required"
INVALID_HEX_COLOR == "Invalid hex color format"
LABEL_NAME_TOO_LONG == "Label name is too long"

----------------------------------------------------------------------------
(* Label model (app/models/label.py)                                       *)

(* A row of the labels table.                                              *)
Label(user_id, parent_id, name, color, system_label) ==
  [user_id |-> user_id, parent_id |-> parent_id, name |-> name,
   color |-> color, system_label |-> system_label]

HexDigits == {"0", "1", "2", "3", "4", "5", "6", "7", "8", "9",
              "A", "B", "C", "D", "E", "F"}

(* Mutant: the color is not upper-cased.                                   *)
_normalize_color_as_typed(color) ==
  IF color = <<>> THEN color
  ELSE LET c1 == strip(color)
           c2 == IF c1 # <<>> /\ Head(c1) = "#" THEN c1 ELSE <<"#">> \o c1
       IN IF Len(c2) = 4
          THEN <<"#", c2[2], c2[2], c2[3], c2[3], c2[4], c2[4]>>
          ELSE c2

_normalize_color(color) ==
  IF color = <<>> THEN color
  ELSE LET c1 == upper(strip(color))
           c2 == IF c1 # <<>> /\ Head(c1) = "#" THEN c1 ELSE <<"#">> \o c1
       IN IF Len(c2) = 4
          THEN <<"#", c2[2], c2[2], c2[3], c2[3], c2[4], c2[4]>>
          ELSE c2

(* re.match(r"^#[0-9A-F]{6}$", color); $ also matches before a newline     *)
(* that ends the string.                                                   *)
_is_valid_hex_color(color) ==
  /\ color # <<>>
  /\ Len(color) = 7 \/ (Len(color) = 8 /\ color[8] = "\n")
  /\ color[1] = "#"
  /\ \A i \in 2..7 : color[i] \in HexDigits

(* validate_name: the message of the ValueError raised, or "none".         *)
validate_name(label) ==
  IF label.name = <<>> \/ strip(label.name) = <<>> THEN LABEL_NAME_REQUIRED
  ELSE IF Len(strip(label.name)) > NAME_MAX_LENGTH THEN LABEL_NAME_TOO_LONG
  ELSE "none"

(* validate_color: the message raised ("none" when it passes) and the     *)
(* color the label holds afterwards.                                       *)
validate_color(label) ==
  IF label.color = <<>>
  THEN [msg |-> LABEL_COLOR_REQUIRED, color |-> label.color]
  ELSE LET c == _normalize_color(label.color)
       IN [msg |-> IF _is_valid_hex_color(c) THEN "none" ELSE INVALID_HEX_COLOR,
           color |-> c]

(* The loop of get_depth, entered with current_parent and depth.           *)
RECURSIVE depth_loop(_, _, _)
depth_loop(L, current_parent, depth) ==
  IF current_parent = NoParent THEN depth
  ELSE IF depth + 1 > MAX_HIERARCHY_DEPTH THEN depth + 1
  ELSE depth_loop(L, L[current_parent].parent_id, depth + 1)

(* Mutant: the label counts itself.                                        *)
get_depth_counting_self(L, label) == depth_loop(L, label.parent_id, 1)

get_depth(L, label) == depth_loop(L, label.parent_id, 0)

(* The loop of get_ancestors, entered with current_parent and ancestors.   *)
RECURSIVE ancestors_loop(_, _, _)
ancestors_loop(L, current_parent, ancestors) ==
  IF current_parent = NoParent THEN ancestors
  ELSE LET a == Append(ancestors, current_parent)
       IN IF Len(a) > MAX_HIERARCHY_DEPTH THEN a
          ELSE ancestors_loop(L, L[current_parent].parent_id, a)

get_ancestors(L, label) == ancestors_loop(L, label.parent_id, <<>>)

(* Mutant: only the direct parent of the other label is looked at.         *)
is_ancestor_of_parent_only(L, self_id, other_label) ==
  other_label.parent_id = self_id

(* self in other_label.get_ancestors(), self given by its id.              *)
is_ancestor_of(L, self_id, other_label) ==
  \E i \in 1..Len(get_ancestors(L, other_label)) :
     get_ancestors(L, other_label)[i] = self_id

children(L, label_id) == {i \in DOMAIN L : L[i].parent_id = label_id}

(* Mutant: the limit compared with > in place of >=.                       *)
validate_hierarchy_depth_gt(L, label) ==
  IF get_depth(L, label) > MAX_HIERARCHY_DEPTH
  THEN LABEL_HIERARCHY_TOO_DEEP ELSE "none"

validate_hierarchy_depth(L, label) ==
  IF get_depth(L, label) >= MAX_HIERARCHY_DEPTH
  THEN LABEL_HIERARCHY_TOO_DEEP ELSE "none"

(* Mutant: the system flag is not looked at.                               *)
can_be_deleted_any(L, label_id) ==
  Cardinality(children(L, label_id)) = 0

can_be_deleted(L, label_id) ==
  IF L[label_id].system_label THEN FALSE
  ELSE Cardinality(children(L, label_id)) = 0

SetMax(S) == CHOOSE x \in S : \A y \in S : y <= x

(* Number of levels below the label: 0 for a label without children.       *)
RECURSIVE get_subtree_height(_, _)
get_subtree_height(L, label_id) ==
  IF children(L, label_id) = {} THEN 0
  ELSE 1 + SetMax({get_subtree_height(L, c) : c \in children(L, label_id)})

----------------------------------------------------------------------------
(* Label repository (app/repositories/label_repository.py)                 *)

Get(data, key, default) == IF key \in DOMAIN data THEN data[key] ELSE default

(* Mutant: the names compared as they are, without lower().                *)
find_by_user_and_name_and_parent_cs(L, user_id, name, parent_id) ==
  {i \in DOMAIN L : /\ L[i].user_id = user_id
                    /\ L[i].parent_id = parent_id
                    /\ L[i].name = name}

(* The rows matched by the query of find_by_user_and_name_and_parent.      *)
find_by_user_and_name_and_parent(L, user_id, name, parent_id) ==
  {i \in DOMAIN L : /\ L[i].user_id = user_id
                    /\ L[i].parent_id = parent_id
                    /\ lower(L[i].name) = lower(name)}

(* The primary key given to a new row: an INTEGER PRIMARY KEY of SQLite    *)
(* takes the largest key in use plus one.                                  *)
new_label_id(L) == IF DOMAIN L = {} THEN 1 ELSE SetMax(DOMAIN L) + 1

(* save of a new label: the table with the row added.                      *)
save_new(L, label) ==
  [i \in DOMAIN L \cup {new_label_id(L)} |->
     IF i \in DOMAIN L THEN L[i] ELSE label]

(* save of a loaded label: the table with the row replaced.                *)
save(L, label_id, label) == [L EXCEPT ![label_id] = label]

(* delete: the row is removed, and with it its rows of the association     *)
(* table subscription_labels.                                              *)
delete(L, label_id) == [i \in DOMAIN L \ {label_id} |-> L[i]]

(* Mutant: the association rows of a deleted label are left behind.        *)
delete_label_associations_kept(S, label_id) == S

delete_label_associations(S, label_id) ==
  [i \in DOMAIN S |-> [S[i] EXCEPT !.labels = @ \ {label_id}]]

----------------------------------------------------------------------------
(* Label service (app/services/label_service.py)                           *)
(* Each operation yields the set of its possible outcomes                  *)
(* [err, labels, subs, session]: the exception raised (NoError when it     *)
(* returns), the committed tables afterwards, and the tables as the        *)
(* session holds them when the call ends.                                  *)

Outcome(err, L, S) ==
  [err |-> err, labels |-> L, subs |-> S, session |-> [labels |-> L, subs |-> S]]

(* Mutant: what the session holds when the call raises is committed.       *)
AbandonedCommitted(err, L, S, DL, DS) ==
  [err |-> err, labels |-> DL, subs |-> DS, session |-> [labels |-> DL, subs |-> DS]]

(* A call that raises after it assigned to objects of the session: the     *)
(* tables stay as committed (L, S); the session holds DL, DS, which no     *)
(* commit follows.                                                         *)
Abandoned(err, L, S, DL, DS) ==
  [err |-> err, labels |-> L, subs |-> S, session |-> [labels |-> DL, subs |-> DS]]

get_label(L, user_id, label_id) ==
  IF label_id \notin DOMAIN L \/ L[label_id].user_id # user_id
  THEN Raise("LabelNotFoundError", LABEL_NOT_FOUND)
  ELSE NoError

(* Mutant: the color is validated before the name.                         *)
create_label_color_first(L, S, user_id, data) ==
  LET name == Get(data, "name", Empty)
      parent_id == Get(data, "parent_id", NoParent)
      label == Label(user_id, parent_id, name, Get(data, "color", Empty),
                     Get(data, "system_label", FALSE))
      vc == validate_color(label)
      label1 == [label EXCEPT !.color = vc.color]
  IN IF find_by_user_and_name_and_parent(L, user_id, name, parent_id) # {}
     THEN {Outcome(Raise("DuplicateLabelError", DUPLICATE_LABEL), L, S)}
     ELSE IF parent_id # NoParent /\ get_label(L, user_id, parent_id) # NoError
     THEN {Outcome(get_label(L, user_id, parent_id), L, S)}
     ELSE IF vc.msg # "none"
     THEN {Outcome(Raise("ValidationError", vc.msg), L, S)}
     ELSE IF validate_name(label) # "none"
     THEN {Outcome(Raise("ValidationError", validate_name(label)), L, S)}
     ELSE IF validate_hierarchy_depth(L, label1) # "none"
     THEN {Outcome(Raise("ValidationError", validate_hierarchy_depth(L, label1)), L, S)}
     ELSE {Outcome(NoError, save_new(L, label1), S)}

create_label(L, S, user_id, data) ==
  LET name == Get(data, "name", Empty)
      parent_id == Get(data, "parent_id", NoParent)
      label == Label(user_id, parent_id, name, Get(data, "color", Empty),
                     Get(data, "system_label", FALSE))
      vc == validate_color(label)
      label1 == [label EXCEPT !.color = vc.color]
  IN IF find_by_user_and_name_and_parent(L, user_id, name, parent_id) # {}
     THEN {Outcome(Raise("DuplicateLabelError", DUPLICATE_LABEL), L, S)}
     ELSE IF parent_id # NoParent /\ get_label(L, user_id, parent_id) # NoError
     THEN {Outcome(get_label(L, user_id, parent_id), L, S)}
     ELSE IF validate_name(label) # "none"
     THEN {Outcome(Raise("ValidationError", validate_name(label)), L, S)}
     ELSE IF vc.msg # "none"
     THEN {Outcome(Raise("ValidationError", vc.msg), L, S)}
     ELSE IF validate_hierarchy_depth(L, label1) # "none"
     THEN {Outcome(Raise("ValidationError", validate_hierarchy_depth(L, label1)), L, S)}
     ELSE {Outcome(NoError, save_new(L, label1), S)}

(* Step 1 of update_label, the parent change: the exception it raises and  *)
(* the label after it.  Mutant: a label may be moved under itself.         *)
update_parent_under_itself(L, user_id, label_id, data) ==
  LET label == L[label_id]
      new_parent_id == data.parent_id
  IN IF "parent_id" \notin DOMAIN data
     THEN [err |-> NoError, label |-> label]
     ELSE IF new_parent_id = NoParent
     THEN [err |-> NoError, label |-> [label EXCEPT !.parent_id = NoParent]]
     ELSE IF get_label(L, user_id, new_parent_id) # NoError
     THEN [err |-> get_label(L, user_id, new_parent_id), label |-> label]
     ELSE IF is_ancestor_of(L, label_id, L[new_parent_id])
     THEN [err |-> Raise("LabelHierarchyError", CIRCULAR_REFERENCE), label |-> label]
     ELSE IF get_depth(L, L[new_parent_id]) + 1 + get_subtree_height(L, label_id)
               >= MAX_HIERARCHY_DEPTH
     THEN [err |-> Raise("LabelHierarchyError", LABEL_HIERARCHY_TOO_DEEP), label |-> label]
     ELSE [err |-> NoError, label |-> [label EXCEPT !.parent_id = new_parent_id]]

update_parent(L, user_id, label_id, data) ==
  LET label == L[label_id]
      new_parent_id == data.parent_id
  IN IF "parent_id" \notin DOMAIN data
     THEN [err |-> NoError, label |-> label]
     ELSE IF new_parent_id = NoParent
     THEN [err |-> NoError, label |-> [label EXCEPT !.parent_id = NoParent]]
     ELSE IF get_label(L, user_id, new_parent_id) # NoError
     THEN [err |-> get_label(L, user_id, new_parent_id), label |-> label]
     ELSE IF is_ancestor_of(L, label_id, L[new_parent_id]) \/ label_id = new_parent_id
     THEN [err |-> Raise("LabelHierarchyError", CIRCULAR_REFERENCE), label |-> label]
     ELSE IF get_depth(L, L[new_parent_id]) + 1 + get_subtree_height(L, label_id)
               >= MAX_HIERARCHY_DEPTH
     THEN [err |-> Raise("LabelHierarchyError", LABEL_HIERARCHY_TOO_DEEP), label |-> label]
     ELSE [err |-> NoError, label |-> [label EXCEPT !.parent_id = new_parent_id]]

(* Step 2 of update_label, the name change.  The query runs after the      *)
(* session has flushed the parent change, so it sees the label under its   *)
(* new parent; first() returns one of the matching rows, in no specified   *)
(* order.  The result is the set of ids first() may return (0 for None).   *)
first_existing(L, user_id, label_id, label, name) ==
  LET flushed == [L EXCEPT ![label_id] = label]
      rows == find_by_user_and_name_and_parent(flushed, user_id, name, label.parent_id)
  IN IF rows = {} THEN {0} ELSE rows

(* Steps 2 to 4 and the save, for one result of first().                   *)
(* Mutant: the system flag is taken from the data as well.                 *)
update_fields_with_flag(L, S, label_id, label, data, existing) ==
  LET label1 == IF "system_label" \in DOMAIN data
                THEN [label EXCEPT !.system_label = data.system_label] ELSE label
      label2 == IF "name" \in DOMAIN data THEN [label1 EXCEPT !.name = data.name] ELSE label1
      label3 == IF "color" \in DOMAIN data THEN [label2 EXCEPT !.color = data.color] ELSE label2
      vc == validate_color(label3)
      label4 == [label3 EXCEPT !.color = vc.color]
  IN IF "name" \in DOMAIN data /\ existing # 0 /\ existing # label_id
     THEN Abandoned(Raise("DuplicateLabelError", DUPLICATE_LABEL), L, S,
                    save(L, label_id, label), S)
     ELSE IF validate_name(label3) # "none"
     THEN Abandoned(Raise("ValidationError", validate_name(label3)), L, S,
                    save(L, label_id, label3), S)
     ELSE IF vc.msg # "none"
     THEN Abandoned(Raise("ValidationError", vc.msg), L, S,
                    save(L, label_id, label4), S)
     ELSE Outcome(NoError, save(L, label_id, label4), S)

update_fields(L, S, label_id, label, data, existing) ==
  LET label2 == IF "name" \in DOMAIN data THEN [label EXCEPT !.name = data.name] ELSE label
      label3 == IF "color" \in DOMAIN data THEN [label2 EXCEPT !.color = data.color] ELSE label2
      vc == validate_color(label3)
      label4 == [label3 EXCEPT !.color = vc.color]
  IN IF "name" \in DOMAIN data /\ existing # 0 /\ existing # label_id
     THEN Abandoned(Raise("DuplicateLabelError", DUPLICATE_LABEL), L, S,
                    save(L, label_id, label), S)
     ELSE IF validate_name(label3) # "none"
     THEN Abandoned(Raise("ValidationError", validate_name(label3)), L, S,
                    save(L, label_id, label3), S)
     ELSE IF vc.msg # "none"
     THEN Abandoned(Raise("ValidationError", vc.msg), L, S,
                    save(L, label_id, label4), S)
     ELSE Outcome(NoError, save(L, label_id, label4), S)

(* Mutant: the system label check is left out.                             *)
update_label_no_system_check(L, S, user_id, label_id, data) ==
  IF get_label(L, user_id, label_id) # NoError
  THEN {Outcome(get_label(L, user_id, label_id), L, S)}
  ELSE LET p == update_parent(L, user_id, label_id, data)
       IN IF p.err # NoError
          THEN {Outcome(p.err, L, S)}
          ELSE {update_fields(L, S, label_id, p.label, data, e) :
                  e \in IF "name" \in DOMAIN data
                        THEN first_existing(L, user_id, label_id, p.label, data.name)
                        ELSE {0}}

update_label(L, S, user_id, label_id, data) ==
  IF get_label(L, user_id, label_id) # NoError
  THEN {Outcome(get_label(L, user_id, label_id), L, S)}
  ELSE IF L[label_id].system_label
  THEN {Outcome(Raise("ValidationError", SYSTEM_LABEL_READONLY), L, S)}
  ELSE LET p == update_parent(L, user_id, label_id, data)
       IN IF p.err # NoError
          THEN {Outcome(p.err, L, S)}
          ELSE {update_fields(L, S, label_id, p.label, data, e) :
                  e \in IF "name" \in DOMAIN data
                        THEN first_existing(L, user_id, label_id, p.label, data.name)
                        ELSE {0}}

delete_label(L, S, user_id, label_id) ==
  IF get_label(L, user_id, label_id) # NoError
  THEN {Outcome(get_label(L, user_id, label_id), L, S)}
  ELSE IF ~can_be_deleted(L, label_id)
  THEN IF L[label_id].system_label
       THEN {Outcome(Raise("ValidationError", SYSTEM_LABEL_READONLY), L, S)}
       ELSE {Outcome(Raise("ValidationError", CANNOT_DELETE_LABEL_WITH_CHILDREN), L, S)}
  ELSE {Outcome(NoError, delete(L, label_id), delete_label_associations(S, label_id))}

----------------------------------------------------------------------------
(* Registration (app/services/auth_service.py)                             *)

USERNAME_MIN_LENGTH == 3
USERNAME_MAX_LENGTH == 32
PASSWORD_MIN_LENGTH == 8

USERNAME_EMPTY == "Username is required"
USERNAME_TOO_SHORT == "Username must be at least 3 characters long"
USERNAME_TOO_LONG == "Username must be no more than 32 characters long"
EMAIL_EMPTY == "Email is required"
EMAIL_INVALID_FORMAT == "Invalid email format"
PASSWORD_EMPTY == "Password is required"
PASSWORD_TOO_SHORT == "Password must be at least 8 characters long"
PASSWORDS_DO_NOT_MATCH == "Passwords do not match"
DUPLICATE_USERNAME == "A user with this username already exists"
DUPLICATE_EMAIL == "A user with this email already exists"

(* A row of the users table.                                               *)
User(username, email) == [username |-> username, email |-> email]

AsciiLetters ==
  {LowerLetters[i] : i \in DOMAIN LowerLetters} \cup {UpperLetters[i] : i \in DOMAIN UpperLetters}
AsciiDigits == {DecimalDigits[i] : i \in DOMAIN DecimalDigits}
LocalChars == AsciiLetters \cup AsciiDigits \cup {".", "_", "%", "+", "-"}
DomainChars == AsciiLetters \cup AsciiDigits \cup {".", "-"}

(* re.match(EMAIL_PATTERN, email): a local part, "@", a domain, "." and    *)
(* two letters at the start of the string.                                 *)
matches_EMAIL_PATTERN(email) ==
  \E at, dot \in 1..Len(email) :
     /\ 1 < at /\ at + 1 < dot /\ dot + 2 <= Len(email)
     /\ \A i \in 1..(at - 1) : email[i] \in LocalChars
     /\ email[at] = "@"
     /\ \A i \in (at + 1)..(dot - 1) : email[i] \in DomainChars
     /\ email[dot] = "."
     /\ email[dot + 1] \in AsciiLetters /\ email[dot + 2] \in AsciiLetters

(* The message of the ValueError raised, or "none".                        *)
_validate_username(username) ==
  IF username = <<>> THEN USERNAME_EMPTY
  ELSE IF Len(username) < USERNAME_MIN_LENGTH THEN USERNAME_TOO_SHORT
  ELSE IF Len(username) > USERNAME_MAX_LENGTH THEN USERNAME_TOO_LONG
  ELSE IF strip(username) = <<>> THEN USERNAME_EMPTY
  ELSE "none"

_validate_email(email) ==
  IF email = <<>> THEN EMAIL_EMPTY
  ELSE IF ~matches_EMAIL_PATTERN(email) THEN EMAIL_INVALID_FORMAT
  ELSE "none"

_validate_password(password) ==
  IF password = <<>> THEN PASSWORD_EMPTY
  ELSE IF Len(password) < PASSWORD_MIN_LENGTH THEN PASSWORD_TOO_SHORT
  ELSE "none"

_check_username_availability(U, username) ==
  IF \E i \in DOMAIN U : U[i].username = username THEN DUPLICATE_USERNAME ELSE "none"

_check_email_availability(U, email) ==
  IF \E i \in DOMAIN U : U[i].email = email THEN DUPLICATE_EMAIL ELSE "none"

(* The loop over the default labels, entered with the labels committed so  *)
(* far and their number: each create_label ends in a save that commits the *)
(* session; the first one that raises ends the loop.                       *)
RECURSIVE create_default_labels(_, _, _, _, _)
create_default_labels(L, S, user_id, default_labels, saved) ==
  IF default_labels = <<>>
  THEN {[err |-> NoError, labels |-> L, saved |-> saved]}
  ELSE UNION {IF o.err # NoError
              THEN {[err |-> o.err, labels |-> L, saved |-> saved]}
              ELSE create_default_labels(o.labels, S, user_id, Tail(default_labels), saved + 1) :
                o \in create_label(L, S, user_id, Head(default_labels))}

(* register_user: the exception raised and the tables afterwards.  The     *)
(* user is flushed into the session of the label service, so the commit of *)
(* the first default label saved commits the user with it; an exception of *)
(* create_label is not an IntegrityError and passes through.               *)
register_user(U, L, S, data, default_labels) ==
  LET username == strip(Get(data, "username", <<>>))
      email == strip(Get(data, "email", <<>>))
      password == Get(data, "password", <<>>)
      confirm_password == Get(data, "confirm_password", <<>>)
      Fail(msg) == {[err |-> Raise("ValueError", msg), users |-> U, labels |-> L]}
      user_id == new_label_id(U)
      U1 == [i \in DOMAIN U \cup {user_id} |->
               IF i \in DOMAIN U THEN U[i] ELSE User(username, email)]
  IN IF _validate_username(username) # "none" THEN Fail(_validate_username(username))
     ELSE IF _validate_email(email) # "none" THEN Fail(_validate_email(email))
     ELSE IF _validate_password(password) # "none" THEN Fail(_validate_password(password))
     ELSE IF password # confirm_password THEN Fail(PASSWORDS_DO_NOT_MATCH)
     ELSE IF _check_username_availability(U, username) # "none"
     THEN Fail(_check_username_availability(U, username))
     ELSE IF _check_email_availability(U, email) # "none"
     THEN Fail(_check_email_availability(U, email))
     ELSE {[err |-> r.err,
            users |-> IF r.err = NoError \/ r.saved > 0 THEN U1 ELSE U,
            labels |-> r.labels] :
             r \in create_default_labels(L, S, user_id, default_labels, 0)}

----------------------------------------------------------------------------
(* Label reads (app/repositories/label_repository.py, label_service.py)    *)

(* The rows of the association table subscription_labels.                  *)
subscription_labels(S) ==
  UNION {{[subscription_id |-> i, label_id |-> l] : l \in S[i].labels} : i \in DOMAIN S}

NULL == 0

(* Label outerjoin subscription_labels: a row for every association of the *)
(* label, and one row with NULL for a label that has none.                 *)
outerjoin(S, label_id) ==
  IF \E a \in subscription_labels(S) : a.label_id = label_id
  THEN {a \in subscription_labels(S) : a.label_id = label_id}
  ELSE {[subscription_id |-> NULL, label_id |-> label_id]}

(* Mutant: the count of all rows of the group, the row of NULLs included.  *)
count_rows(S, label_id) == Cardinality(outerjoin(S, label_id))

(* func.count(subscription_labels.c.subscription_id) of the group of the   *)
(* label: the rows whose subscription_id is not NULL.                      *)
count_subscription_id(S, label_id) ==
  Cardinality({r \in outerjoin(S, label_id) : r.subscription_id # NULL})

(* Label.to_dict(): the columns of the label.                              *)
to_dict(L, label_id) ==
  [label_id |-> label_id, user_id |-> L[label_id].user_id, name |-> L[label_id].name,
   color |-> L[label_id].color, parent_id |-> L[label_id].parent_id,
   system_label |-> L[label_id].system_label]

(* {**label.to_dict(), "usage_count": usage_count}                         *)
with_usage(L, S, label_id) ==
  [k \in DOMAIN to_dict(L, label_id) \cup {"usage_count"} |->
     IF k = "usage_count" THEN count_subscription_id(S, label_id)
     ELSE to_dict(L, label_id)[k]]

NoResult == [none |-> TRUE]

(* get_label_with_usage: the exception raised and the dict returned.       *)
get_label_with_usage(L, S, user_id, label_id) ==
  IF label_id \notin DOMAIN L \/ L[label_id].user_id # user_id
  THEN [err |-> Raise("LabelNotFoundError", LABEL_NOT_FOUND), result |-> NoResult]
  ELSE [err |-> NoError, result |-> with_usage(L, S, label_id)]

(* The labels selected by find_all_by_user_id_with_usage.                  *)
find_all_by_user_id_with_usage(L, user_id) ==
  {i \in DOMAIN L : L[i].user_id = user_id}

(* An argument of type int | None: None, or the integer n as Some(n).      *)
None == {}
Some(n) == {n}

(* The labels selected by find_all_by_user_id_with_usage_filtered: those   *)
(* of the user under the parent, at root for parent_id None.  A column     *)
(* that is NULL (NoParent) equals no integer.                              *)
find_all_by_user_id_with_usage_filtered(L, user_id, parent_id) ==
  {i \in DOMAIN L :
     /\ L[i].user_id = user_id
     /\ IF parent_id = None THEN L[i].parent_id = NoParent
        ELSE L[i].parent_id # NoParent /\ Some(L[i].parent_id) = parent_id}

(* Mutant: the filter is chosen by the truth value of parent_id.           *)
get_labels_by_user_with_usage_truthy(L, S, user_id, parent_id, filter_root_labels) ==
  LET results == IF (parent_id # None /\ parent_id # Some(0)) \/ filter_root_labels
                 THEN find_all_by_user_id_with_usage_filtered(L, user_id, parent_id)
                 ELSE find_all_by_user_id_with_usage(L, user_id)
  IN {with_usage(L, S, i) : i \in results}

(* get_labels_by_user_with_usage(user_id, parent_id, filter_root_labels):  *)
(* the dicts returned, without their order.                                *)
get_labels_by_user_with_usage(L, S, user_id, parent_id, filter_root_labels) ==
  LET results == IF parent_id # None \/ filter_root_labels
                 THEN find_all_by_user_id_with_usage_filtered(L, user_id, parent_id)
                 ELSE find_all_by_user_id_with_usage(L, user_id)
  IN {with_usage(L, S, i) : i \in results}

----------------------------------------------------------------------------
(* Dates (datetime.date, calendar.monthrange)                              *)

MAXYEAR == 9999

Date(y, m, d) == [y |-> y, m |-> m, d |-> d]

isleap(y) == y % 4 = 0 /\ (y % 100 # 0 \/ y % 400 = 0)

(* calendar.monthrange(year, month)[1]                                     *)
monthrange_days(y, m) ==
  IF m = 2 THEN (IF isleap(y) THEN 29 ELSE 28)
  ELSE IF m \in {4, 6, 9, 11} THEN 30 ELSE 31

(* The constructor date(y, m, d) raises ValueError outside this set.       *)
IsDate(x) ==
  /\ x.y >= 1 /\ x.y <= MAXYEAR
  /\ x.m >= 1 /\ x.m <= 12
  /\ x.d >= 1 /\ x.d <= monthrange_days(x.y, x.m)

DateLess(a, b) ==
  \/ a.y < b.y
  \/ a.y = b.y /\ a.m < b.m
  \/ a.y = b.y /\ a.m = b.m /\ a.d < b.d

----------------------------------------------------------------------------
(* Billing date calculator (app/models/subscription.py)                    *)

MONTHLY == "monthly"
QUARTERLY == "quarterly"
YEARLY == "yearly"
PaymentFrequency_all == {MONTHLY, QUARTERLY, YEARLY}

UNKNOWN_PAYMENT_FREQUENCY == "Unknown payment frequency"
YEAR_OUT_OF_RANGE == "year is out of range"

(* Mutant: no date is taken for the last day of its month.                 *)
_is_last_day_of_month_never(check_date) == FALSE

_is_last_day_of_month(check_date) ==
  check_date.d = monthrange_days(check_date.y, check_date.m)

(* The loop "while month > 12: year += 1; month -= 12".                    *)
RECURSIVE year_overflow(_, _)
year_overflow(year, month) ==
  IF month > 12 THEN year_overflow(year + 1, month - 12)
  ELSE [year |-> year, month |-> month]

(* A computed date or the ValueError of the date constructor.              *)
make_date(y, m, d) ==
  IF IsDate(Date(y, m, d))
  THEN [err |-> NoError, date |-> Date(y, m, d)]
  ELSE [err |-> Raise("ValueError", YEAR_OUT_OF_RANGE), date |-> Date(y, m, d)]

(* Mutant: the day is not clamped to the length of the target month.       *)
_add_months_no_clamp(start_date, months) ==
  LET ym == year_overflow(start_date.y, start_date.m + months)
      last_day == monthrange_days(ym.year, ym.month)
  IN IF _is_last_day_of_month(start_date)
     THEN make_date(ym.year, ym.month, last_day)
     ELSE make_date(ym.year, ym.month, start_date.d)

_add_months(start_date, months) ==
  LET ym == year_overflow(start_date.y, start_date.m + months)
      last_day == monthrange_days(ym.year, ym.month)
  IN IF _is_last_day_of_month(start_date)
     THEN make_date(ym.year, ym.month, last_day)
     ELSE make_date(ym.year, ym.month,
                    IF start_date.d < last_day THEN start_date.d ELSE last_day)

(* Mutant: a yearly payment is not moved on.                               *)
calculate_next_payment_date_yearly_unmoved(payment_frequency, from_date) ==
  IF payment_frequency = MONTHLY THEN _add_months(from_date, 1)
  ELSE IF payment_frequency = QUARTERLY THEN _add_months(from_date, 3)
  ELSE IF payment_frequency = YEARLY THEN _add_months(from_date, 0)
  ELSE [err |-> Raise("ValueError", UNKNOWN_PAYMENT_FREQUENCY), date |-> from_date]

calculate_next_payment_date(payment_frequency, from_date) ==
  IF payment_frequency = MONTHLY THEN _add_months(from_date, 1)
  ELSE IF payment_frequency = QUARTERLY THEN _add_months(from_date, 3)
  ELSE IF payment_frequency = YEARLY THEN _add_months(from_date, 12)
  ELSE [err |-> Raise("ValueError", UNKNOWN_PAYMENT_FREQUENCY), date |-> from_date]

----------------------------------------------------------------------------
(* Subscription model (app/models/subscription.py, app/constants.py)       *)
(* A Subscription object is a record holding the attributes that are set;  *)
(* an attribute that is None is absent from its DOMAIN.                    *)

USD == <<"U", "S", "D">>
JPY == <<"J", "P", "Y">>
CurrencyConstants_all == {USD, JPY}
SubscriptionStatus_all == {"trial", "active", "suspended", "cancelled", "expired"}

SUBSCRIPTION_NOT_FOUND == "Subscription not found"
DUPLICATE_SUBSCRIPTION == "A subscription with this name already exists"
UNSUPPORTED_CURRENCY == "Unsupported currency"
INVALID_STATUS == "Invalid status"
INVALID_PAYMENT_FREQUENCY == "Invalid payment frequency"
PRICE_MUST_BE_POSITIVE == "Price must be positive"
NEXT_PAYMENT_DATE_BEFORE_INITIAL == "Next payment date cannot be before initial payment date"
NONE_NOT_COMPARABLE == "'<' not supported for NoneType"
NONE_HAS_NO_ATTRIBUTE == "'NoneType' object has no attribute"
NOT_NULL_CONSTRAINT == "NOT NULL constraint failed"
NONE_NOT_ITERABLE == "'NoneType' object is not iterable"
LABEL_ACCESS_DENIED == "Label not found or access denied"

(* The columns declared nullable=False that the service does not check.    *)
NotNullColumns == {"user_id", "name", "payment_method"}

(* A request body.  Its keys are the keys of the record; the field "null"  *)
(* holds the keys the body gives with the value None (JSON null).          *)
Nulls(data) == IF "null" \in DOMAIN data THEN data.null ELSE {}
Given(data) == DOMAIN data \ {"null"}
InData(data, key) == key \in Given(data) \cup Nulls(data)

(* What hasattr(subscription, key) holds of: the mapped attributes.        *)
SubscriptionAttributes ==
  {"subscription_id", "user_id", "name", "price", "currency",
   "initial_payment_date", "next_payment_date", "payment_frequency",
   "payment_method", "status", "url", "notes", "image_url", "labels"}

validate_price(sub) ==
  IF "price" \notin DOMAIN sub THEN Raise("TypeError", NONE_NOT_COMPARABLE)
  ELSE IF sub.price <= 0 THEN Raise("ValueError", PRICE_MUST_BE_POSITIVE)
  ELSE NoError

(* validate_currency: the exception raised and the currency held after.    *)
validate_currency(sub) ==
  IF "currency" \notin DOMAIN sub \/ sub.currency = <<>>
  THEN IF "currency" \notin DOMAIN sub
       THEN [err |-> Raise("AttributeError", NONE_HAS_NO_ATTRIBUTE), sub |-> sub]
       ELSE [err |-> Raise("ValueError", UNSUPPORTED_CURRENCY), sub |-> sub]
  ELSE LET s1 == [sub EXCEPT !.currency = upper(@)]
       IN IF upper(s1.currency) \in CurrencyConstants_all
          THEN [err |-> NoError, sub |-> s1]
          ELSE [err |-> Raise("ValueError", UNSUPPORTED_CURRENCY), sub |-> s1]

validate_status(sub) ==
  IF "status" \in DOMAIN sub /\ sub.status \in SubscriptionStatus_all
  THEN NoError ELSE Raise("ValueError", INVALID_STATUS)

validate_payment_frequency(sub) ==
  IF "payment_frequency" \in DOMAIN sub /\ sub.payment_frequency \in PaymentFrequency_all
  THEN NoError ELSE Raise("ValueError", INVALID_PAYMENT_FREQUENCY)

RECURSIVE gcd(_, _)
gcd(a, b) == IF b = 0 THEN a ELSE gcd(b, a % b)

(* The float n / d of two whole numbers, kept as a fraction in lowest       *)
(* terms; rounding of a quotient that is not whole is not modelled.        *)
Quotient(n, d) == [num |-> n \div gcd(n, d), den |-> d \div gcd(n, d)]

Frequency(sub) ==
  IF "payment_frequency" \in DOMAIN sub THEN sub.payment_frequency ELSE "None"

(* Mutant: a quarter is taken for four months.                             *)
monthly_cost_quarter_of_four(sub) ==
  IF Frequency(sub) = MONTHLY THEN [err |-> NoError, value |-> Quotient(sub.price, 1)]
  ELSE IF Frequency(sub) = QUARTERLY THEN [err |-> NoError, value |-> Quotient(sub.price, 4)]
  ELSE IF Frequency(sub) = YEARLY THEN [err |-> NoError, value |-> Quotient(sub.price, 12)]
  ELSE [err |-> Raise("ValueError", UNKNOWN_PAYMENT_FREQUENCY), value |-> Quotient(0, 1)]

(* monthly_cost: the exception raised and the value returned.              *)
monthly_cost(sub) ==
  IF Frequency(sub) = MONTHLY THEN [err |-> NoError, value |-> Quotient(sub.price, 1)]
  ELSE IF Frequency(sub) = QUARTERLY THEN [err |-> NoError, value |-> Quotient(sub.price, 3)]
  ELSE IF Frequency(sub) = YEARLY THEN [err |-> NoError, value |-> Quotient(sub.price, 12)]
  ELSE [err |-> Raise("ValueError", UNKNOWN_PAYMENT_FREQUENCY), value |-> Quotient(0, 1)]

yearly_cost(sub) ==
  IF Frequency(sub) = MONTHLY THEN [err |-> NoError, value |-> Quotient(sub.price * 12, 1)]
  ELSE IF Frequency(sub) = QUARTERLY THEN [err |-> NoError, value |-> Quotient(sub.price * 4, 1)]
  ELSE IF Frequency(sub) = YEARLY THEN [err |-> NoError, value |-> Quotient(sub.price, 1)]
  ELSE [err |-> Raise("ValueError", UNKNOWN_PAYMENT_FREQUENCY), value |-> Quotient(0, 1)]

validate_dates(sub) ==
  IF "next_payment_date" \notin DOMAIN sub \/ "initial_payment_date" \notin DOMAIN sub
  THEN Raise("TypeError", NONE_NOT_COMPARABLE)
  ELSE IF DateLess(sub.next_payment_date, sub.initial_payment_date)
  THEN Raise("ValueError", NEXT_PAYMENT_DATE_BEFORE_INITIAL)
  ELSE NoError

(* Mutant: the date is advanced from the next_payment_date the object     *)
(* holds, when it holds one.                                               *)
recompute_from_next_payment_date(sub) ==
  LET has_from == "initial_payment_date" \in DOMAIN sub \/ "next_payment_date" \in DOMAIN sub
      from_date == IF "next_payment_date" \in DOMAIN sub
                   THEN sub.next_payment_date ELSE sub.initial_payment_date
      freq_known == "payment_frequency" \in DOMAIN sub
                    /\ sub.payment_frequency \in PaymentFrequency_all
      r == calculate_next_payment_date(sub.payment_frequency, from_date)
  IN IF ~freq_known
     THEN [err |-> Raise("ValueError", UNKNOWN_PAYMENT_FREQUENCY), sub |-> sub]
     ELSE IF ~has_from
     THEN [err |-> Raise("AttributeError", NONE_HAS_NO_ATTRIBUTE), sub |-> sub]
     ELSE IF r.err # NoError
     THEN [err |-> r.err, sub |-> sub]
     ELSE [err |-> NoError,
           sub |-> [k \in DOMAIN sub \cup {"next_payment_date"} |->
                      IF k = "next_payment_date" THEN r.date ELSE sub[k]]]

(* subscription.next_payment_date = subscription.calculate_next_payment_   *)
(* date(from_date=subscription.initial_payment_date): the exception raised *)
(* and the object after the assignment.                                    *)
recompute_next_payment_date(sub) ==
  LET has_from == "initial_payment_date" \in DOMAIN sub \/ "next_payment_date" \in DOMAIN sub
      from_date == IF "initial_payment_date" \in DOMAIN sub
                   THEN sub.initial_payment_date ELSE sub.next_payment_date
      freq_known == "payment_frequency" \in DOMAIN sub
                    /\ sub.payment_frequency \in PaymentFrequency_all
      r == calculate_next_payment_date(sub.payment_frequency, from_date)
  IN IF ~freq_known
     THEN [err |-> Raise("ValueError", UNKNOWN_PAYMENT_FREQUENCY), sub |-> sub]
     ELSE IF ~has_from
     THEN [err |-> Raise("AttributeError", NONE_HAS_NO_ATTRIBUTE), sub |-> sub]
     ELSE IF r.err # NoError
     THEN [err |-> r.err, sub |-> sub]
     ELSE [err |-> NoError,
           sub |-> [k \in DOMAIN sub \cup {"next_payment_date"} |->
                      IF k = "next_payment_date" THEN r.date ELSE sub[k]]]

----------------------------------------------------------------------------
(* Subscription repository (app/repositories/subscription_repository.py)   *)

(* s LIKE pattern: "%" matches any run of characters, "_" any one.         *)
RECURSIVE like(_, _)
like(s, pattern) ==
  IF pattern = <<>> THEN s = <<>>
  ELSE IF Head(pattern) = "%"
  THEN \E k \in 0..Len(s) : like(SubSeq(s, k + 1, Len(s)), Tail(pattern))
  ELSE IF s = <<>> THEN FALSE
  ELSE /\ (Head(pattern) = "_" \/ Head(pattern) = Head(s))
       /\ like(Tail(s), Tail(pattern))

ilike(s, pattern) == like(lower(s), lower(pattern))

(* The rows matched by the query of find_by_user_and_name.                 *)
find_by_user_and_name(S, user_id, name) ==
  {i \in DOMAIN S : S[i].user_id = user_id /\ ilike(S[i].name, name)}

new_subscription_id(S) == IF DOMAIN S = {} THEN 1 ELSE SetMax(DOMAIN S) + 1

save_new_subscription(S, sub) ==
  [i \in DOMAIN S \cup {new_subscription_id(S)} |->
     IF i \in DOMAIN S THEN S[i] ELSE sub]

save_subscription(S, subscription_id, sub) == [S EXCEPT ![subscription_id] = sub]

delete_subscription_row(S, subscription_id) ==
  [i \in DOMAIN S \ {subscription_id} |-> S[i]]

----------------------------------------------------------------------------
(* Subscription service (app/services/subscription_service.py)             *)

(* Mutant: the owner of the subscription is not compared.                  *)
get_subscription_any_owner(S, user_id, subscription_id) ==
  IF subscription_id \notin DOMAIN S
  THEN Raise("SubscriptionNotFoundError", SUBSCRIPTION_NOT_FOUND)
  ELSE NoError

get_subscription(S, user_id, subscription_id) ==
  IF subscription_id \notin DOMAIN S \/ S[subscription_id].user_id # user_id
  THEN Raise("SubscriptionNotFoundError", SUBSCRIPTION_NOT_FOUND)
  ELSE NoError

(* except (ValueError, TypeError) as e: raise ValidationError(str(e))      *)
wrap(err) ==
  IF err.exc \in {"ValueError", "TypeError"} THEN Raise("ValidationError", err.msg)
  ELSE err

(* Subscription(user_id=user_id, **data); a new object has no labels.      *)
new_subscription(user_id, data) ==
  [k \in Given(data) \cup {"user_id", "labels"} |->
     IF k = "user_id" THEN user_id
     ELSE IF k = "labels" THEN {}
     ELSE data[k]]

(* The commit of a row: the NOT NULL columns must be set.                  *)
integrity(sub) ==
  IF NotNullColumns \subseteq DOMAIN sub THEN NoError
  ELSE Raise("IntegrityError", NOT_NULL_CONSTRAINT)

create_subscription(L, S, user_id, data) ==
  LET sub == new_subscription(user_id, data)
      vc == validate_currency(sub)
      nx == recompute_next_payment_date(vc.sub)
  IN IF "name" \in Given(data) /\ find_by_user_and_name(S, user_id, data.name) # {}
     THEN {Outcome(Raise("DuplicateSubscriptionError", DUPLICATE_SUBSCRIPTION), L, S)}
     ELSE IF validate_price(sub) # NoError
     THEN {Outcome(wrap(validate_price(sub)), L, S)}
     ELSE IF vc.err # NoError
     THEN {Outcome(wrap(vc.err), L, S)}
     ELSE IF validate_status(vc.sub) # NoError
     THEN {Outcome(wrap(validate_status(vc.sub)), L, S)}
     ELSE IF validate_payment_frequency(vc.sub) # NoError
     THEN {Outcome(wrap(validate_payment_frequency(vc.sub)), L, S)}
     ELSE IF nx.err # NoError
     THEN {Outcome(wrap(nx.err), L, S)}
     ELSE IF validate_dates(nx.sub) # NoError
     THEN {Outcome(wrap(validate_dates(nx.sub)), L, S)}
     ELSE IF integrity(nx.sub) # NoError
     THEN {Outcome(integrity(nx.sub), L, S)}
     ELSE {Outcome(NoError, L, save_new_subscription(S, nx.sub))}

(* The loop over data["labels"]: a label that is absent or of another user *)
(* stops it.                                                               *)
(* Mutant: the label ids of the request are not looked up.                 *)
labels_allowed_unchecked(L, user_id, label_ids) == TRUE

labels_allowed(L, user_id, label_ids) ==
  \A l \in label_ids : l \in DOMAIN L /\ L[l].user_id = user_id

(* The ids first() may return for the duplicate-name query (0 for None).   *)
first_existing_subscription(S, user_id, name) ==
  IF find_by_user_and_name(S, user_id, name) = {} THEN {0}
  ELSE find_by_user_and_name(S, user_id, name)

(* for key, value in data.items(): if hasattr(subscription, key):          *)
(* setattr(subscription, key, value).  The label list was assigned before. *)
set_attributes(sub, data) ==
  [k \in (DOMAIN sub \cup (Given(data) \cap SubscriptionAttributes)) \ Nulls(data) |->
     IF k \in Given(data) \cap SubscriptionAttributes THEN data[k] ELSE sub[k]]

(* update_subscription after the subscription is loaded, for one result    *)
(* of first().                                                             *)
update_loaded(L, S, user_id, subscription_id, data, existing) ==
  LET subscription == S[subscription_id]
      relabelled == IF "labels" \in Given(data)
                    THEN [subscription EXCEPT !.labels = data.labels]
                    ELSE subscription
      sub1 == set_attributes(subscription, data)
      vc == validate_currency(sub1)
      recompute == InData(data, "payment_frequency")
                   \/ InData(data, "initial_payment_date")
      nx == IF recompute THEN recompute_next_payment_date(vc.sub)
            ELSE [err |-> NoError, sub |-> vc.sub]
  IN IF "labels" \in Nulls(data)
     THEN Outcome(Raise("TypeError", NONE_NOT_ITERABLE), L, S)
     ELSE IF "labels" \in Given(data) /\ ~labels_allowed(L, user_id, data.labels)
     THEN Outcome(Raise("ValidationError", LABEL_ACCESS_DENIED), L, S)
     ELSE IF /\ "name" \in Given(data) /\ data.name # <<>>
             /\ lower(data.name) # lower(subscription.name)
             /\ existing # 0 /\ existing # subscription_id
     THEN Abandoned(Raise("DuplicateSubscriptionError", DUPLICATE_SUBSCRIPTION), L, S,
                    L, save_subscription(S, subscription_id, relabelled))
     ELSE IF validate_price(sub1) # NoError
     THEN Abandoned(wrap(validate_price(sub1)), L, S,
                    L, save_subscription(S, subscription_id, sub1))
     ELSE IF vc.err # NoError
     THEN Abandoned(wrap(vc.err), L, S, L, save_subscription(S, subscription_id, vc.sub))
     ELSE IF validate_status(vc.sub) # NoError
     THEN Abandoned(wrap(validate_status(vc.sub)), L, S,
                    L, save_subscription(S, subscription_id, vc.sub))
     ELSE IF nx.err # NoError
     THEN Abandoned(wrap(nx.err), L, S, L, save_subscription(S, subscription_id, nx.sub))
     ELSE IF validate_dates(nx.sub) # NoError
     THEN Abandoned(wrap(validate_dates(nx.sub)), L, S,
                    L, save_subscription(S, subscription_id, nx.sub))
     ELSE IF integrity(nx.sub) # NoError
     THEN Abandoned(integrity(nx.sub), L, S,
                    L, save_subscription(S, subscription_id, nx.sub))
     ELSE Outcome(NoError, L, save_subscription(S, subscription_id, nx.sub))

update_subscription(L, S, user_id, subscription_id, data) ==
  IF get_subscription(S, user_id, subscription_id) # NoError
  THEN {Outcome(get_subscription(S, user_id, subscription_id), L, S)}
  ELSE {update_loaded(L, S, user_id, subscription_id, data, e) :
          e \in IF "name" \in Given(data) /\ data.name # <<>>
                   /\ lower(data.name) # lower(S[subscription_id].name)
                THEN first_existing_subscription(S, user_id, data.name)
                ELSE {0}}

delete_subscription(L, S, user_id, subscription_id) ==
  IF get_subscription(S, user_id, subscription_id) # NoError
  THEN {Outcome(get_subscription(S, user_id, subscription_id), L, S)}
  ELSE {Outcome(NoError, L, delete_subscription_row(S, subscription_id))}

----------------------------------------------------------------------------
(* HTTP handlers (app/api/v1/label.py, app/api/v1/subscription.py)         *)
(* Each handler yields the set of its responses: the status code, the      *)
(* exception the service raised and the committed tables afterwards.  The  *)
(* body is the decoded JSON object, dates already parsed.                  *)

OK == 200
CREATED == 201
NO_CONTENT == 204
BAD_REQUEST == 400
FORBIDDEN == 403
NOT_FOUND == 404
INTERNAL_SERVER_ERROR == 500

Response(status, o) ==
  [status |-> status, err |-> o.err, labels |-> o.labels, subs |-> o.subs]

(* if not data: return jsonify({"error": "Invalid JSON"}), 400             *)
InvalidJson(L, S) == Response(BAD_REQUEST, Outcome(NoError, L, S))

LabelBadRequest == {"DuplicateLabelError", "LabelHierarchyError", "ValidationError"}

(* The except clauses of POST /labels: anything but the three listed       *)
(* exceptions is caught by "except Exception".                             *)
create_label_status(err) ==
  IF err = NoError THEN CREATED
  ELSE IF err.exc \in LabelBadRequest THEN BAD_REQUEST
  ELSE INTERNAL_SERVER_ERROR

(* The except clauses of PUT /labels/<id>; an exception they do not name   *)
(* leaves the handler and the server answers 500.                          *)
update_label_status(err) ==
  IF err = NoError THEN OK
  ELSE IF err.exc = "LabelNotFoundError" THEN NOT_FOUND
  ELSE IF err.exc \in LabelBadRequest THEN BAD_REQUEST
  ELSE INTERNAL_SERVER_ERROR

delete_label_status(err) ==
  IF err = NoError THEN NO_CONTENT
  ELSE IF err.exc = "LabelNotFoundError" THEN NOT_FOUND
  ELSE IF err.exc = "ValidationError" THEN BAD_REQUEST
  ELSE INTERNAL_SERVER_ERROR

get_label_by_id_status(err) ==
  IF err = NoError THEN OK
  ELSE IF err.exc = "LabelNotFoundError" THEN NOT_FOUND
  ELSE INTERNAL_SERVER_ERROR

SubscriptionBadRequest == {"DuplicateSubscriptionError", "ValidationError"}

create_subscription_status(err) ==
  IF err = NoError THEN CREATED
  ELSE IF err.exc \in SubscriptionBadRequest THEN BAD_REQUEST
  ELSE INTERNAL_SERVER_ERROR

update_subscription_status(err) ==
  IF err = NoError THEN OK
  ELSE IF err.exc = "SubscriptionNotFoundError" THEN NOT_FOUND
  ELSE IF err.exc = "SubscriptionAccessDenied" THEN FORBIDDEN
  ELSE IF err.exc \in SubscriptionBadRequest THEN BAD_REQUEST
  ELSE INTERNAL_SERVER_ERROR

delete_subscription_status(err) ==
  IF err = NoError THEN NO_CONTENT
  ELSE IF err.exc = "SubscriptionNotFoundError" THEN NOT_FOUND
  ELSE IF err.exc = "SubscriptionAccessDenied" THEN FORBIDDEN
  ELSE INTERNAL_SERVER_ERROR

get_subscription_by_id_status(err) ==
  IF err = NoError THEN OK
  ELSE IF err.exc = "SubscriptionNotFoundError" THEN NOT_FOUND
  ELSE IF err.exc = "SubscriptionAccessDenied" THEN FORBIDDEN
  ELSE INTERNAL_SERVER_ERROR

api_create_label(L, S, user_id, data) ==
  IF DOMAIN data = {} THEN {InvalidJson(L, S)}
  ELSE {Response(create_label_status(o.err), o) : o \in create_label(L, S, user_id, data)}

api_update_label(L, S, user_id, label_id, data) ==
  IF DOMAIN data = {} THEN {InvalidJson(L, S)}
  ELSE {Response(update_label_status(o.err), o) :
          o \in update_label(L, S, user_id, label_id, data)}

api_delete_label(L, S, user_id, label_id) ==
  {Response(delete_label_status(o.err), o) : o \in delete_label(L, S, user_id, label_id)}

api_get_label_by_id(L, S, user_id, label_id) ==
  LET err == get_label_with_usage(L, S, user_id, label_id).err
  IN {Response(get_label_by_id_status(err), Outcome(err, L, S))}

Null == <<"n", "u", "l", "l">>

(* GET /labels with the query arguments args: the status code and the      *)
(* labels of the body.                                                     *)
api_get_labels(L, S, user_id, args) ==
  IF "parent_id" \notin DOMAIN args
  THEN [status |-> OK, labels |-> get_labels_by_user_with_usage(L, S, user_id, None, FALSE)]
  ELSE IF args.parent_id = Null
  THEN [status |-> OK, labels |-> get_labels_by_user_with_usage(L, S, user_id, None, TRUE)]
  ELSE IF ~int(args.parent_id).ok
  THEN [status |-> BAD_REQUEST, labels |-> {}]
  ELSE [status |-> OK,
        labels |-> get_labels_by_user_with_usage(L, S, user_id,
                                                 Some(int(args.parent_id).value), FALSE)]

api_create_subscription(L, S, user_id, data) ==
  IF DOMAIN data = {} THEN {InvalidJson(L, S)}
  ELSE {Response(create_subscription_status(o.err), o) :
          o \in create_subscription(L, S, user_id, data)}

api_update_subscription(L, S, user_id, subscription_id, data) ==
  IF DOMAIN data = {} THEN {InvalidJson(L, S)}
  ELSE {Response(update_subscription_status(o.err), o) :
          o \in update_subscription(L, S, user_id, subscription_id, data)}

api_delete_subscription(L, S, user_id, subscription_id) ==
  {Response(delete_subscription_status(o.err), o) :
     o \in delete_subscription(L, S, user_id, subscription_id)}

api_get_subscription_by_id(L, S, user_id, subscription_id) ==
  LET err == get_subscription(S, user_id, subscription_id)
  IN {Response(get_subscription_by_id_status(err), Outcome(err, L, S))}

----------------------------------------------------------------------------
(* State machine                                                           *)
(* labels and subs are the committed tables, keyed by primary key.  lastOp *)
(* records the last service call: its name and the exception it raised     *)
(* (NoError when it returned).  calc is the state of the date calculator.  *)

EmptyTable == <<>>

(* calc: the last call of the calculator (op, its start date from, its     *)
(* months or freq, the exception err), the date now held, the number of    *)
(* calls made and the date the chain started from.                         *)
CalcStart(d) ==
  [op |-> "none", from |-> d, months |-> 0, freq |-> "none", err |-> NoError,
   date |-> d, steps |-> 0, origin |-> d]

NoCalc == CalcStart(Date(1, 1, 1))

Op(op, err) == [op |-> op, err |-> err]

NoOp == Op("none", NoError)

(* The requests in flight.  Each runs in a session of its own: it loads    *)
(* the rows it reads, validates what it loaded and saves the row it built. *)
Requests == {1, 2}

NoRow == Label(0, NoParent, <<>>, <<>>, FALSE)

Idle ==
  [pc |-> "idle", op |-> "none", user_id |-> 0, label_id |-> 0, data |-> <<>>,
   loaded |-> EmptyTable, row |-> NoRow, err |-> NoError, behind |-> {}]

NoRequests == [r \in Requests |-> Idle]

Saved(r) == requests[r].pc = "saved"

Init ==
  /\ labels = EmptyTable
  /\ subs = EmptyTable
  /\ lastOp = NoOp
  /\ calc = NoCalc
  /\ requests = NoRequests
  /\ user_table = EmptyTable

Commit(o) ==
  /\ labels' = o.labels
  /\ subs' = o.subs
  /\ UNCHANGED <<calc, requests, user_table>>

CreateLabel(users, datas, max) ==
  \E u \in users, d \in datas : \E o \in create_label(labels, subs, u, d) :
     /\ o.err = NoError => new_label_id(labels) <= max
     /\ Commit(o)
     /\ lastOp' = Op("create_label", o.err)

UpdateLabel(users, ids, datas) ==
  \E u \in users, id \in ids, d \in datas :
     \E o \in update_label(labels, subs, u, id, d) :
        /\ Commit(o)
        /\ lastOp' = Op("update_label", o.err)

DeleteLabel(users, ids) ==
  \E u \in users, id \in ids : \E o \in delete_label(labels, subs, u, id) :
     /\ Commit(o)
     /\ lastOp' = Op("delete_label", o.err)

GetDepth(ids) ==
  \E id \in ids \cap DOMAIN labels :
     /\ lastOp' = [op |-> "get_depth", err |-> NoError, label_id |-> id,
                   depth |-> get_depth(labels, labels[id])]
     /\ UNCHANGED <<labels, subs, calc, requests, user_table>>

GetAncestors(ids) ==
  \E id \in ids \cap DOMAIN labels :
     /\ lastOp' = [op |-> "get_ancestors", err |-> NoError, label_id |-> id,
                   ancestors |-> get_ancestors(labels, labels[id])]
     /\ UNCHANGED <<labels, subs, calc, requests, user_table>>

(* A request starts: its session loads the rows of the table.  behind is   *)
(* the set of requests that had saved before it loaded.                    *)
Load(op, users, ids, datas) ==
  \E r \in Requests, u \in users, id \in ids, d \in datas :
     /\ requests[r].pc = "idle"
     /\ requests' = [requests EXCEPT ![r] =
                       [pc |-> "loaded", op |-> op, user_id |-> u, label_id |-> id,
                        data |-> d, loaded |-> labels, row |-> NoRow, err |-> NoError,
                        behind |-> {q \in Requests : Saved(q)}]]
     /\ UNCHANGED <<labels, subs, lastOp, calc, user_table>>

(* What the service decides on the rows the request loaded, and the row it *)
(* hands to save.                                                          *)
decide(request, S) ==
  IF request.op = "update_label"
  THEN {[err |-> o.err,
         row |-> IF o.err = NoError THEN o.labels[request.label_id] ELSE NoRow] :
          o \in update_label(request.loaded, S, request.user_id, request.label_id,
                             request.data)}
  ELSE {[err |-> o.err,
         row |-> IF o.err = NoError THEN o.labels[new_label_id(request.loaded)] ELSE NoRow] :
          o \in create_label(request.loaded, S, request.user_id, request.data)}

(* The checks of the service run on what the session loaded; a request     *)
(* that fails them raises and saves nothing.                               *)
Validate ==
  \E r \in Requests : \E v \in decide(requests[r], subs) :
     /\ requests[r].pc = "loaded"
     /\ requests' = [requests EXCEPT ![r].pc = IF v.err = NoError THEN "validated" ELSE "raised",
                                     ![r].err = v.err, ![r].row = v.row]
     /\ UNCHANGED <<labels, subs, lastOp, calc, user_table>>

(* The table after the session has committed the row: an UPDATE of the     *)
(* columns the request changed, or an INSERT under the next free id.       *)
commit(L, request) ==
  IF request.op = "update_label"
  THEN [i \in DOMAIN L |->
          IF i # request.label_id THEN L[i]
          ELSE [c \in DOMAIN L[i] |->
                  IF request.row[c] # request.loaded[i][c] THEN request.row[c] ELSE L[i][c]]]
  ELSE save_new(L, request.row)

Save ==
  \E r \in Requests :
     /\ requests[r].pc = "validated"
     /\ requests[r].op = "update_label" => requests[r].label_id \in DOMAIN labels
     /\ labels' = commit(labels, requests[r])
     /\ requests' = [requests EXCEPT ![r].pc = "saved"]
     /\ lastOp' = Op(requests[r].op, NoError)
     /\ UNCHANGED <<subs, calc, user_table>>

RegisterUser(datas, files, max) ==
  \E d \in datas, default_labels \in files :
     \E o \in register_user(user_table, labels, subs, d, default_labels) :
        /\ Cardinality(DOMAIN o.users) <= max
        /\ user_table' = o.users
        /\ labels' = o.labels
        /\ lastOp' = Op("register_user", o.err)
        /\ UNCHANGED <<subs, calc, requests>>

GetLabel(users, ids) ==
  \E u \in users, id \in ids :
     /\ UNCHANGED <<labels, subs, calc, requests, user_table>>
     /\ lastOp' = Op("get_label", get_label(labels, u, id))

(* A request answered: the route, the exception of the service and the     *)
(* status code of the response.                                            *)
Answered(op, r) == [op |-> op, err |-> r.err, status |-> r.status]

Request(op, r) ==
  /\ Commit(r)
  /\ lastOp' = Answered(op, r)

PostLabels(users, datas, max) ==
  \E u \in users, d \in datas : \E r \in api_create_label(labels, subs, u, d) :
     /\ r.status = CREATED => new_label_id(labels) <= max
     /\ Request("POST /labels", r)

PutLabel(users, ids, datas) ==
  \E u \in users, id \in ids, d \in datas :
     \E r \in api_update_label(labels, subs, u, id, d) : Request("PUT /labels/id", r)

DeleteLabelById(users, ids) ==
  \E u \in users, id \in ids :
     \E r \in api_delete_label(labels, subs, u, id) : Request("DELETE /labels/id", r)

GetLabelById(users, ids) ==
  \E u \in users, id \in ids :
     \E r \in api_get_label_by_id(labels, subs, u, id) : Request("GET /labels/id", r)

PostSubscriptions(users, datas, max) ==
  \E u \in users, d \in datas : \E r \in api_create_subscription(labels, subs, u, d) :
     /\ r.status = CREATED => new_subscription_id(subs) <= max
     /\ Request("POST /subscriptions", r)

PutSubscription(users, ids, datas) ==
  \E u \in users, id \in ids, d \in datas :
     \E r \in api_update_subscription(labels, subs, u, id, d) :
        Request("PUT /subscriptions/id", r)

DeleteSubscriptionById(users, ids) ==
  \E u \in users, id \in ids :
     \E r \in api_delete_subscription(labels, subs, u, id) :
        Request("DELETE /subscriptions/id", r)

GetSubscriptionById(users, ids) ==
  \E u \in users, id \in ids :
     \E r \in api_get_subscription_by_id(labels, subs, u, id) :
        Request("GET /subscriptions/id", r)

(* GET /labels answered: the user, the query arguments, the status code    *)
(* and the labels of the body.                                             *)
GetLabels(users, argss) ==
  \E u \in users, args \in argss :
     LET r == api_get_labels(labels, subs, u, args)
     IN /\ UNCHANGED <<labels, subs, calc, requests, user_table>>
        /\ lastOp' = [op |-> "GET /labels", err |-> NoError, user_id |-> u, args |-> args,
                      status |-> r.status, labels |-> r.labels]

(* A cost method called on a subscription object: the object, the          *)
(* exception raised and the value returned.                                *)
MonthlyCost(subscriptions) ==
  \E self \in subscriptions :
     /\ UNCHANGED <<labels, subs, calc, requests, user_table>>
     /\ lastOp' = [op |-> "monthly_cost", err |-> monthly_cost(self).err, self |-> self,
                   value |-> monthly_cost(self).value]

YearlyCost(subscriptions) ==
  \E self \in subscriptions :
     /\ UNCHANGED <<labels, subs, calc, requests, user_table>>
     /\ lastOp' = [op |-> "yearly_cost", err |-> yearly_cost(self).err, self |-> self,
                   value |-> yearly_cost(self).value]

(* A read: the call, the exception it raised and what it returned.         *)
Read(op, err, result) == [op |-> op, err |-> err, result |-> result]

GetLabelWithUsage(users, ids) ==
  \E u \in users, id \in ids :
     LET r == get_label_with_usage(labels, subs, u, id)
     IN /\ UNCHANGED <<labels, subs, calc, requests, user_table>>
        /\ lastOp' = Read("get_label_with_usage", r.err, r.result)

GetLabelsByUserWithUsage(users, parent_ids, flags) ==
  \E u \in users, parent_id \in parent_ids, filter_root_labels \in flags :
     /\ UNCHANGED <<labels, subs, calc, requests, user_table>>
     /\ lastOp' = Read("get_labels_by_user_with_usage", NoError,
                       get_labels_by_user_with_usage(labels, subs, u, parent_id,
                                                     filter_root_labels))

CreateSubscription(users, datas, max) ==
  \E u \in users, d \in datas : \E o \in create_subscription(labels, subs, u, d) :
     /\ o.err = NoError => new_subscription_id(subs) <= max
     /\ Commit(o)
     /\ lastOp' = Op("create_subscription", o.err)

UpdateSubscription(users, ids, datas) ==
  \E u \in users, id \in ids, d \in datas :
     \E o \in update_subscription(labels, subs, u, id, d) :
        /\ Commit(o)
        /\ lastOp' = Op("update_subscription", o.err)

DeleteSubscription(users, ids) ==
  \E u \in users, id \in ids : \E o \in delete_subscription(labels, subs, u, id) :
     /\ Commit(o)
     /\ lastOp' = Op("delete_subscription", o.err)

GetSubscription(users, ids) ==
  \E u \in users, id \in ids :
     /\ UNCHANGED <<labels, subs, calc, requests, user_table>>
     /\ lastOp' = Op("get_subscription", get_subscription(subs, u, id))

(* A call of _add_months on the date held; a call that raises ends the    *)
(* chain.                                                                  *)
AddMonths(monthss, max) ==
  \E months \in monthss :
     LET r == _add_months(calc.date, months)
     IN /\ calc.err = NoError /\ calc.steps < max
        /\ calc' = [calc EXCEPT !.op = "_add_months", !.from = calc.date,
                                !.months = months, !.freq = "none", !.err = r.err,
                                !.date = IF r.err = NoError THEN r.date ELSE calc.date,
                                !.steps = calc.steps + 1]
        /\ UNCHANGED <<labels, subs, lastOp, requests, user_table>>

(* A call of calculate_next_payment_date(from_date) on the date held.      *)
CalculateNextPaymentDate(freqs, max) ==
  \E freq \in freqs :
     LET r == calculate_next_payment_date(freq, calc.date)
     IN /\ calc.err = NoError /\ calc.steps < max
        /\ calc' = [calc EXCEPT !.op = "calculate_next_payment_date",
                                !.from = calc.date, !.months = 0, !.freq = freq,
                                !.err = r.err,
                                !.date = IF r.err = NoError THEN r.date ELSE calc.date,
                                !.steps = calc.steps + 1]
        /\ UNCHANGED <<labels, subs, lastOp, requests, user_table>>

----------------------------------------------------------------------------
(* SpecDeep: the forest of one user with up to MaxDeepLabels labels, deep  *)
(* enough for the depth limit.  Labels are created under any parent; the   *)
(* update requests re-parent the two newest ids.                           *)

White == <<"#", "f", "f", "f">>
WHITE == <<"#", "F", "F", "F", "F", "F", "F">>

DeepIds == 1..(MaxDeepLabels + 1)
DeepMovable == {MaxDeepLabels - 1, MaxDeepLabels}
DeepParents == DeepIds \cup {NoParent}
DeepCreateData ==
  {[name |-> n, color |-> White] : n \in {Work, Play}}
  \cup {[name |-> Work, color |-> White, parent_id |-> p] : p \in DeepIds}
DeepUpdateData == {[parent_id |-> p] : p \in DeepParents}

DeepCreate == CreateLabel({1}, DeepCreateData, MaxDeepLabels)
DeepUpdate == UpdateLabel({1}, DeepMovable, DeepUpdateData)

NextDeep == DeepCreate \/ DeepUpdate

SpecDeep == Init /\ [][NextDeep]_vars

----------------------------------------------------------------------------
(* SpecTree: the forest of one user with up to MaxTreeLabels labels under  *)
(* every create, update and delete request.                                *)

TreeIds == 1..(MaxTreeLabels + 1)
TreeCreateData ==
  {[name |-> Work, color |-> White]}
  \cup {[name |-> Work, color |-> White, parent_id |-> p] : p \in TreeIds}
TreeUpdateData ==
  {[parent_id |-> p] : p \in TreeIds \cup {NoParent}}
  \cup {[parent_id |-> p, name |-> Play] : p \in TreeIds \cup {NoParent}}

TreeCreate == CreateLabel({1}, TreeCreateData, MaxTreeLabels)
TreeUpdate == UpdateLabel({1}, TreeIds, TreeUpdateData)
TreeDelete == DeleteLabel({1}, TreeIds)

NextTree == TreeCreate \/ TreeUpdate \/ TreeDelete

SpecTree == Init /\ [][NextTree]_vars

----------------------------------------------------------------------------
(* SpecNames: two users naming up to MaxNameLabels labels with names that  *)
(* differ in case only, under every create, update and delete request.     *)

NameIds == 1..(MaxNameLabels + 1)
Names == {Work, work}
NameCreateData ==
  {[name |-> n, color |-> White] : n \in Names}
  \cup {[name |-> n, color |-> White, parent_id |-> p] : n \in Names, p \in NameIds}
NameUpdateData ==
  {[parent_id |-> p] : p \in NameIds \cup {NoParent}}
  \cup {[name |-> n] : n \in Names}
  \cup {[parent_id |-> p, name |-> n] : p \in NameIds \cup {NoParent}, n \in Names}

NameCreate == CreateLabel(Users, NameCreateData, MaxNameLabels)
NameUpdate == UpdateLabel(Users, NameIds, NameUpdateData)
NameDelete == DeleteLabel(Users, NameIds)

NextNames == NameCreate \/ NameUpdate \/ NameDelete

SpecNames == Init /\ [][NextNames]_vars

----------------------------------------------------------------------------
(* SpecSystem: one user with up to MaxSysLabels labels, system labels      *)
(* among them (created from data carrying system_label, as the default     *)
(* labels are), under valid, empty and invalid update data.                *)

Black == <<"0", "0", "0">>
NotAColor == <<"z", "z", "z">>
NoData == <<>>

SysIds == 1..(MaxSysLabels + 1)
SysCreateData ==
  {[name |-> Work, color |-> White], [name |-> Work, color |-> White, system_label |-> TRUE]}
  \cup {[name |-> Work, color |-> White, parent_id |-> p] : p \in SysIds}
  \cup {[name |-> Work, color |-> White, parent_id |-> p, system_label |-> TRUE] : p \in SysIds}
SysUpdateData ==
  {NoData, [name |-> Play], [name |-> Blank], [color |-> NotAColor]}
  \cup {[parent_id |-> p] : p \in SysIds \cup {NoParent}}

SysCreate == CreateLabel({1}, SysCreateData, MaxSysLabels)
SysUpdate == UpdateLabel({1}, SysIds, SysUpdateData)
SysDelete == DeleteLabel({1}, SysIds)

NextSystem == SysCreate \/ SysUpdate \/ SysDelete

SpecSystem == Init /\ [][NextSystem]_vars

----------------------------------------------------------------------------
(* SpecOwner: two users, each requesting every get, update and delete on   *)
(* every label and subscription id, their own and the other user's.        *)

Tv == <<"T", "v">>
usd == <<"u", "s", "d">>
CreditCard == "credit_card"

SubData(name, frequency, initial) ==
  [name |-> name, price |-> 10, currency |-> usd, status |-> "active",
   payment_frequency |-> frequency, initial_payment_date |-> initial,
   payment_method |-> CreditCard]

OwnerLabelIds == 1..MaxOwnerLabels
OwnerSubIds == 1..MaxOwnerSubs
OwnerLabelCreateData == {[name |-> Work, color |-> White]}
OwnerLabelUpdateData == {[name |-> Play]}
OwnerLabelRequests ==
  {[name |-> Play], [parent_id |-> NoParent], [color |-> White]}
  \cup {[parent_id |-> p] : p \in OwnerLabelIds}
OwnerSubCreateData == {SubData(Tv, MONTHLY, Date(2024, 1, 31))}
OwnerSubUpdateData == {[labels |-> {1}]}
OwnerSubRequests ==
  {[price |-> 20], [payment_frequency |-> YEARLY], [name |-> Work]}
  \cup {[labels |-> {l}] : l \in OwnerLabelIds}

OwnerCreateLabel == CreateLabel(Users, OwnerLabelCreateData, MaxOwnerLabels)
OwnerGetLabel == GetLabel(Users, OwnerLabelIds)
OwnerUpdateLabel == UpdateLabel(Users, OwnerLabelIds, OwnerLabelUpdateData)
OwnerDeleteLabel == DeleteLabel(Users, OwnerLabelIds)
OwnerCreateSubscription == CreateSubscription(Users, OwnerSubCreateData, MaxOwnerSubs)
OwnerGetSubscription == GetSubscription(Users, OwnerSubIds)
OwnerUpdateSubscription == UpdateSubscription(Users, OwnerSubIds, OwnerSubUpdateData)
OwnerDeleteSubscription == DeleteSubscription(Users, OwnerSubIds)

NextOwner ==
  \/ OwnerCreateLabel \/ OwnerGetLabel \/ OwnerUpdateLabel \/ OwnerDeleteLabel
  \/ OwnerCreateSubscription \/ OwnerGetSubscription
  \/ OwnerUpdateSubscription \/ OwnerDeleteSubscription

SpecOwner == Init /\ [][NextOwner]_vars

----------------------------------------------------------------------------
(* SpecCalc: the date calculator started on every day of a common year, of *)
(* a leap year and of the last year a date can hold, and applied up to     *)
(* MaxSteps times in a row.                                                *)

CalcYears == {2023, 2024, MAXYEAR}
CalcDates ==
  {x \in {Date(y, m, d) : y \in CalcYears, m \in 1..12, d \in 1..31} : IsDate(x)}
CalcMonths == {1, 2, 3, 12}
Weekly == "weekly"
CalcFrequencies == PaymentFrequency_all \cup {Weekly}

InitCalc ==
  /\ labels = EmptyTable
  /\ subs = EmptyTable
  /\ lastOp = NoOp
  /\ calc \in {CalcStart(d) : d \in CalcDates}
  /\ requests = NoRequests
  /\ user_table = EmptyTable

CalcAddMonths == AddMonths(CalcMonths, MaxSteps)
CalcNextPaymentDate == CalculateNextPaymentDate(CalcFrequencies, MaxSteps)

NextCalc == CalcAddMonths \/ CalcNextPaymentDate

SpecCalc == InitCalc /\ [][NextCalc]_vars

----------------------------------------------------------------------------
(* SpecSubs: the subscriptions of one user, created monthly and updated to *)
(* the other frequencies, to another initial date and with a carried       *)
(* next_payment_date.                                                      *)

SubIds == 1..MaxSubs
Jan31 == Date(2024, 1, 31)
Nov15 == Date(2024, 11, 15)
Carried == Date(2030, 6, 10)
SubsCreateData ==
  {SubData(n, f, Jan31) : n \in {Tv, Work}, f \in {MONTHLY, Weekly}}
  \cup {[k \in DOMAIN SubData(Tv, MONTHLY, Nov15) \cup {"next_payment_date"} |->
          IF k = "next_payment_date" THEN Carried ELSE SubData(Tv, MONTHLY, Nov15)[k]]}
SubsUpdateData ==
  {[payment_frequency |-> f] : f \in {QUARTERLY, YEARLY, Weekly}}
  \cup {[initial_payment_date |-> Nov15], [next_payment_date |-> Carried],
        [payment_frequency |-> YEARLY, next_payment_date |-> Carried],
        [price |-> 20]}

SubsCreate == CreateSubscription({1}, SubsCreateData, MaxSubs)
SubsUpdate == UpdateSubscription({1}, SubIds, SubsUpdateData)
SubsDelete == DeleteSubscription({1}, SubIds)

NextSubs == SubsCreate \/ SubsUpdate \/ SubsDelete

SpecSubs == Init /\ [][NextSubs]_vars

----------------------------------------------------------------------------
(* SpecValid: the subscriptions of one user, created and updated with      *)
(* valid values, with values outside the allowed sets and with nulls.      *)

ValidIds == 1..MaxValidSubs
eur == <<"e", "u", "r">>
jpy == <<"j", "p", "y">>
Dec31 == Date(2023, 12, 31)
With(data, key, value) ==
  [k \in DOMAIN data \cup {key} |-> IF k = key THEN value ELSE data[k]]
ValidCreateData ==
  {SubData(Tv, MONTHLY, Jan31),
   With(SubData(Tv, MONTHLY, Jan31), "next_payment_date", Dec31),
   With(SubData(Tv, YEARLY, Jan31), "price", 0),
   With(SubData(Tv, MONTHLY, Jan31), "price", -10),
   With(SubData(Tv, MONTHLY, Jan31), "currency", eur),
   With(SubData(Tv, MONTHLY, Jan31), "status", "paused"),
   SubData(Tv, Weekly, Jan31)}
ValidUpdateData ==
  {[price |-> 20], [price |-> 0], [currency |-> jpy], [currency |-> eur],
   [status |-> "trial"], [status |-> "paused"],
   [payment_frequency |-> YEARLY], [payment_frequency |-> Weekly],
   [next_payment_date |-> Carried], [next_payment_date |-> Dec31],
   [initial_payment_date |-> Nov15]}
  \cup {[null |-> {k}] : k \in {"price", "currency", "status", "payment_frequency",
                               "next_payment_date", "initial_payment_date"}}

ValidCreate == CreateSubscription({1}, ValidCreateData, MaxValidSubs)
ValidUpdate == UpdateSubscription({1}, ValidIds, ValidUpdateData)
ValidDelete == DeleteSubscription({1}, ValidIds)

NextValid == ValidCreate \/ ValidUpdate \/ ValidDelete

SpecValid == Init /\ [][NextValid]_vars

----------------------------------------------------------------------------
(* SpecUnique: the subscriptions of two users, created and renamed with    *)
(* names that differ in case, and with a name holding the LIKE wildcard.   *)

UniqueIds == 1..MaxUniqueSubs
tv == <<"t", "v">>
TDollar == <<"T", "$">>
TPercent == <<"T", "%">>
UniqueNames == {Tv, tv, Work, TDollar, TPercent}
UniqueCreateData == {SubData(n, MONTHLY, Jan31) : n \in UniqueNames}
UniqueUpdateData == {[name |-> n] : n \in UniqueNames}

UniqueCreate == CreateSubscription(Users, UniqueCreateData, MaxUniqueSubs)
UniqueUpdate == UpdateSubscription(Users, UniqueIds, UniqueUpdateData)

NextUnique == UniqueCreate \/ UniqueUpdate

SpecUnique == Init /\ [][NextUnique]_vars

----------------------------------------------------------------------------
(* SpecAtomic: the labels and subscriptions of one user under requests     *)
(* that fail at every step of the five operations, also after the call has *)
(* assigned a new parent, a new label list or new field values.            *)

AtomicLabelIds == 1..MaxAtomicLabels
AtomicSubIds == 1..MaxAtomicSubs
AtomicLabelCreateData ==
  {[name |-> n, color |-> White] : n \in {Work, Play}}
  \cup {[name |-> Work, color |-> NotAColor], [name |-> Blank, color |-> White],
        [name |-> Work, color |-> White, parent_id |-> MaxAtomicLabels + 1]}
AtomicLabelUpdateData ==
  {[parent_id |-> p, name |-> Work] : p \in AtomicLabelIds \cup {NoParent}}
  \cup {[parent_id |-> 1, color |-> NotAColor]}
AtomicLabelRequests ==
  AtomicLabelUpdateData
  \cup {[parent_id |-> p, name |-> Play] : p \in AtomicLabelIds \cup {NoParent}}
  \cup {[parent_id |-> p, color |-> NotAColor] : p \in AtomicLabelIds \cup {NoParent}}
  \cup {[parent_id |-> NoParent, name |-> Blank]}
AtomicSubCreateData ==
  {SubData(n, MONTHLY, Jan31) : n \in {Tv, Work}}
  \cup {With(SubData(Tv, MONTHLY, Jan31), "price", 0)}
AtomicSubUpdateData ==
  {[labels |-> {1}, name |-> Work], [labels |-> {1}, price |-> 0]}
AtomicSubRequests ==
  AtomicSubUpdateData
  \cup {[labels |-> {l}, name |-> n] : l \in AtomicLabelIds, n \in {Tv, Work}}
  \cup {[price |-> 20, currency |-> eur],
        [price |-> 20, payment_frequency |-> Weekly], [price |-> 20, status |-> "paused"],
        [price |-> 20, next_payment_date |-> Dec31], [null |-> {"payment_method"}]}

AtomicCreateLabel == CreateLabel({1}, AtomicLabelCreateData, MaxAtomicLabels)
AtomicUpdateLabel == UpdateLabel({1}, AtomicLabelIds, AtomicLabelUpdateData)
AtomicDeleteLabel == DeleteLabel({1}, AtomicLabelIds)
AtomicCreateSubscription == CreateSubscription({1}, AtomicSubCreateData, MaxAtomicSubs)
AtomicUpdateSubscription == UpdateSubscription({1}, AtomicSubIds, AtomicSubUpdateData)

NextAtomic ==
  \/ AtomicCreateLabel \/ AtomicUpdateLabel \/ AtomicDeleteLabel
  \/ AtomicCreateSubscription \/ AtomicUpdateSubscription

SpecAtomic == Init /\ [][NextAtomic]_vars

----------------------------------------------------------------------------
(* SpecAssoc: the labels and subscriptions of two users, the label lists   *)
(* of the subscriptions assigned with own, foreign and absent label ids,   *)
(* labels and subscriptions deleted, and labels read with their usage.     *)

AssocLabelIds == 1..(MaxAssocLabels + 1)
AssocSubIds == 1..MaxAssocSubs
AssocLabelCreateData == {[name |-> Work, color |-> White], [name |-> Play, color |-> White]}
AssocSubCreateData == {SubData(Tv, MONTHLY, Jan31)}
AssocSubUpdateData == {[labels |-> ls] : ls \in SUBSET AssocLabelIds}

AssocCreateLabel == CreateLabel(Users, AssocLabelCreateData, MaxAssocLabels)
AssocDeleteLabel == DeleteLabel(Users, AssocLabelIds)
AssocCreateSubscription == CreateSubscription(Users, AssocSubCreateData, MaxAssocSubs)
AssocUpdateSubscription == UpdateSubscription(Users, AssocSubIds, AssocSubUpdateData)
AssocDeleteSubscription == DeleteSubscription(Users, AssocSubIds)
AssocGetLabelWithUsage == GetLabelWithUsage(Users, AssocLabelIds)
AssocGetLabels == GetLabelsByUserWithUsage(Users, {None, Some(1)}, BOOLEAN)

NextAssoc ==
  \/ AssocCreateLabel \/ AssocDeleteLabel
  \/ AssocCreateSubscription \/ AssocUpdateSubscription \/ AssocDeleteSubscription
  \/ AssocGetLabelWithUsage \/ AssocGetLabels

SpecAssoc == Init /\ [][NextAssoc]_vars

----------------------------------------------------------------------------
(* SpecHttp: the label and subscription routes called by two users with    *)
(* bodies that succeed, that name absent and foreign rows and parents, and *)
(* that fail validation, duplicate and hierarchy checks.                   *)

HttpLabelIds == 1..(MaxHttpLabels + 1)
HttpSubIds == 1..(MaxHttpSubs + 1)
HttpLabelCreateData ==
  {[name |-> Work, color |-> White], [name |-> Blank, color |-> White], NoData}
  \cup {[name |-> Play, color |-> White, parent_id |-> p] : p \in {1, MaxHttpLabels + 1}}
HttpLabelUpdateData ==
  {[name |-> Work], [color |-> NotAColor], NoData}
  \cup {[parent_id |-> p] : p \in HttpLabelIds}
HttpSubCreateData ==
  {SubData(Tv, MONTHLY, Jan31), With(SubData(Tv, MONTHLY, Jan31), "price", 0), NoData}
HttpSubUpdateData == {[price |-> 20], [price |-> 0], [labels |-> {1}], NoData}

HttpPostLabels == PostLabels(Users, HttpLabelCreateData, MaxHttpLabels)
HttpPutLabel == PutLabel(Users, HttpLabelIds, HttpLabelUpdateData)
HttpDeleteLabel == DeleteLabelById(Users, HttpLabelIds)
HttpGetLabel == GetLabelById(Users, HttpLabelIds)
HttpPostSubscriptions == PostSubscriptions(Users, HttpSubCreateData, MaxHttpSubs)
HttpPutSubscription == PutSubscription(Users, HttpSubIds, HttpSubUpdateData)
HttpDeleteSubscription == DeleteSubscriptionById(Users, HttpSubIds)
HttpGetSubscription == GetSubscriptionById(Users, HttpSubIds)

NextHttp ==
  \/ HttpPostLabels \/ HttpPutLabel \/ HttpDeleteLabel \/ HttpGetLabel
  \/ HttpPostSubscriptions \/ HttpPutSubscription \/ HttpDeleteSubscription
  \/ HttpGetSubscription

SpecHttp == Init /\ [][NextHttp]_vars

----------------------------------------------------------------------------
(* SpecList: two users build label trees, move and delete labels, and list *)
(* their labels with every kind of parent_id argument.                     *)

ListLabelIds == 1..MaxListLabels
ListCreateData ==
  {[name |-> Work, color |-> White]}
  \cup {[name |-> Play, color |-> White, parent_id |-> p] : p \in ListLabelIds}
ListUpdateData == {[parent_id |-> NoParent]}
ListParams ==
  {<<"0">>, <<"1">>, <<"2">>, <<"1", "0">>, <<" ", "1">>, <<"+", "1">>, <<"-", "1">>,
   Null, <<"N", "u", "l", "l">>, <<>>, <<" ">>, <<"-">>, <<"1", ".", "0">>, <<"1", "a">>,
   <<"a">>}
ListArgs == {NoData} \cup {[parent_id |-> p] : p \in ListParams}

ListCreateLabel == CreateLabel(Users, ListCreateData, MaxListLabels)
ListUpdateLabel == UpdateLabel(Users, ListLabelIds, ListUpdateData)
ListDeleteLabel == DeleteLabel(Users, ListLabelIds)
ListGetLabels == GetLabels(Users, ListArgs)

NextList == ListCreateLabel \/ ListUpdateLabel \/ ListDeleteLabel \/ ListGetLabels

SpecList == Init /\ [][NextList]_vars

----------------------------------------------------------------------------
(* SpecColor: labels created and recoloured with every short string over   *)
(* a small alphabet and with longer sample colors.                         *)

ColorAlphabet == {" ", "#", "f", "g"}
ColorStrings == UNION {[1..n -> ColorAlphabet] : n \in 0..MaxColorLen}
ColorSamples ==
  {<<" ", " ", "#", "f", "f", "f", " ", " ">>, <<"#", "f", "f", "f", "\n">>,
   <<"#", "a", "0", "B", "1", "c", "2">>, <<"a", "0", "B", "1", "c", "2">>,
   <<"\t", "A", "0", "b", "1", "C", "2", " ">>,
   <<"#", "f", "f", "f", "f">>, <<"f", "f", "f", "f", "f">>,
   <<"#", "f", "f", "f", "f", "f", "f", "f">>, <<"#", "f", "f", "f", "f", "f", "g">>,
   <<"#", "#", "f", "f", "f", "f", "f">>, <<"#", "f", "f", " ", "f", "f", "f">>}
ColorInputs == ColorStrings \cup ColorSamples
ShortColors == [1..3 -> {"f", "0"}] \cup {<<"#", "f", "A", "0">>, <<"#", "g", "g", "g">>, Empty}
ColorsSent == ColorSamples \cup ShortColors
ColorIds == 1..MaxColorLabels
ColorCreateData ==
  {[name |-> n, color |-> c] : n \in {Work, Play}, c \in ColorsSent}
  \cup {[name |-> Work]}
ColorUpdateData == {[color |-> c] : c \in ColorsSent} \cup {[name |-> Play]}

ColorCreateLabel == CreateLabel({1}, ColorCreateData, MaxColorLabels)
ColorUpdateLabel == UpdateLabel({1}, ColorIds, ColorUpdateData)
ColorDeleteLabel == DeleteLabel({1}, ColorIds)

NextColor == ColorCreateLabel \/ ColorUpdateLabel \/ ColorDeleteLabel

SpecColor == Init /\ [][NextColor]_vars

----------------------------------------------------------------------------
(* SpecCost: the cost methods called on subscription objects of every      *)
(* price up to MaxPrice and of price 120, with the three frequencies, an   *)
(* unknown one and none.                                                   *)

CostPrices == 0..MaxPrice \cup {120}
CostSubscriptions ==
  {[price |-> p, payment_frequency |-> f] : p \in CostPrices, f \in CalcFrequencies}
  \cup {[price |-> p] : p \in CostPrices}

CostMonthly == MonthlyCost(CostSubscriptions)
CostYearly == YearlyCost(CostSubscriptions)

NextCost == CostMonthly \/ CostYearly

SpecCost == Init /\ [][NextCost]_vars

----------------------------------------------------------------------------
(* SpecOrder: one user builds trees deep enough for the depth limit, sends *)
(* create requests with more than one fault and deletes the newest label.  *)

OrderIds == 1..(MaxOrderLabels + 1)
OrderCreateData ==
  {[name |-> n, color |-> White] : n \in {Work, Play}}
  \cup {[name |-> Work, color |-> White, parent_id |-> p] : p \in OrderIds}
  \cup {[name |-> Blank, color |-> NotAColor], [name |-> Work, color |-> NotAColor]}
OrderRequests ==
  {[name |-> n, color |-> c] : n \in {Work, Play, Blank}, c \in {White, NotAColor, Empty}}
  \cup {[name |-> n, color |-> c, parent_id |-> p] :
          n \in {Work, Play, Blank}, c \in {White, NotAColor, Empty}, p \in OrderIds}

OrderCreate == CreateLabel({1}, OrderCreateData, MaxOrderLabels)
OrderDelete == DeleteLabel({1}, {MaxOrderLabels})

NextOrder == OrderCreate \/ OrderDelete

SpecOrder == Init /\ [][NextOrder]_vars

----------------------------------------------------------------------------
(* SpecGraph: get_depth and get_ancestors on the parent graphs of one      *)
(* user's labels, cyclic ones included: each label is a root, hangs under  *)
(* the label before it, or under the last label (from where the walk       *)
(* returns to it).                                                         *)

GraphIds == 1..MaxGraphLabels
GraphShapes == {"root", "chained", "looped"}
GraphParents ==
  {[i \in GraphIds |-> IF c[i] = "root" THEN NoParent
                       ELSE IF c[i] = "chained" THEN i - 1
                       ELSE MaxGraphLabels] : c \in [GraphIds -> GraphShapes]}

InitGraph ==
  /\ labels \in {[i \in GraphIds |-> Label(1, p[i], Work, White, FALSE)] : p \in GraphParents}
  /\ subs = EmptyTable
  /\ lastOp = NoOp
  /\ calc = NoCalc
  /\ requests = NoRequests
  /\ user_table = EmptyTable

GraphGetDepth == GetDepth(GraphIds)
GraphGetAncestors == GetAncestors(GraphIds)

NextGraph == GraphGetDepth \/ GraphGetAncestors

SpecGraph == InitGraph /\ [][NextGraph]_vars

----------------------------------------------------------------------------
(* SpecRace: two update_label requests of one user, each moving a label    *)
(* under another, on a forest of chains built before they start.           *)

RaceNames == <<Work, Play, Tv>>
RaceName(id) == RaceNames[(id % Len(RaceNames)) + 1]
RaceCreateData ==
  {[name |-> RaceName(new_label_id(labels)), color |-> WHITE],
   [name |-> RaceName(new_label_id(labels)), color |-> WHITE,
    parent_id |-> new_label_id(labels) - 1]}
RaceTargets == 1..MaxRaceTargets
RaceUpdateData == {[parent_id |-> p] : p \in 1..MaxRaceParents}

RaceCreate == requests = NoRequests /\ CreateLabel({1}, RaceCreateData, MaxRaceLabels)
RaceLoad == Load("update_label", {1}, RaceTargets \cap DOMAIN labels, RaceUpdateData)

NextRace == RaceCreate \/ RaceLoad \/ Validate \/ Save

SpecRace == Init /\ [][NextRace]_vars

----------------------------------------------------------------------------
(* SpecTwin: two create_label requests of one user for names that differ   *)
(* at most in case, at the root or under label 1, beside labels created    *)
(* before they start.                                                      *)

TwinData ==
  {[name |-> n, color |-> White] : n \in Names}
  \cup {[name |-> n, color |-> White, parent_id |-> 1] : n \in Names}

TwinCreate ==
  requests = NoRequests
  /\ CreateLabel({1}, TwinData \cup {[name |-> Play, color |-> White]}, MaxTwinLabels)
TwinLoad == Load("create_label", {1}, {0}, TwinData)

NextTwin == TwinCreate \/ TwinLoad \/ Validate \/ Save

SpecTwin == Init /\ [][NextTwin]_vars

----------------------------------------------------------------------------
(* SpecRegister: users registered one after the other, with the file of    *)
(* default labels holding no label, one, two, two of one name, or one of   *)
(* an invalid color.                                                       *)

Bob == <<"b", "o", "b">>
Amy == <<"a", "m", "y">>
Al == <<"a", "l">>
BobMail == <<"b", "@", "x", ".", "i", "o">>
AmyMail == <<"a", "@", "x", ".", "i", "o">>
NoMail == <<"b", "@", "x">>
Secret == <<"s", "e", "c", "r", "e", "t", "1", "2">>
Short == <<"s", "e", "c">>
Registration(username, email, password, confirm_password) ==
  [username |-> username, email |-> email, password |-> password,
   confirm_password |-> confirm_password]

DefaultWork == [name |-> Work, color |-> White]
DefaultPlay == [name |-> Play, color |-> White]
DefaultBad == [name |-> Play, color |-> NotAColor]
DefaultLabelFiles ==
  {<<>>, <<DefaultWork>>, <<DefaultWork, DefaultPlay>>, <<DefaultWork, DefaultWork>>,
   <<DefaultWork, DefaultBad>>, <<DefaultBad>>}

RegisterData ==
  {Registration(n, e, Secret, Secret) : n \in {Bob, Amy}, e \in {BobMail, AmyMail}}
RegisterRequests ==
  {Registration(n, e, pw, c) : n \in {Bob, Amy, Al, Empty, Blank}, e \in {BobMail, AmyMail, NoMail, Empty},
                               pw \in {Secret, Short, Empty}, c \in {Secret, Short}}

RegisterNext == RegisterUser(RegisterData, DefaultLabelFiles, MaxRegistered)

SpecRegister == Init /\ [][RegisterNext]_vars

----------------------------------------------------------------------------
(* SpecFrame: one user with up to MaxFrameLabels labels, a system label    *)
(* among them, renamed, recolored and moved.                               *)

FrameIds == 1..(MaxFrameLabels + 1)
FrameCreateData ==
  {[name |-> Work, color |-> White], [name |-> Work, color |-> White, system_label |-> TRUE]}
  \cup {[name |-> Work, color |-> White, parent_id |-> p] : p \in FrameIds}
FrameUpdateData ==
  {[name |-> Play], [color |-> Black]} \cup {[parent_id |-> p] : p \in FrameIds \cup {NoParent}}

FrameCreate == CreateLabel({1}, FrameCreateData, MaxFrameLabels)
FrameUpdate == UpdateLabel({1}, FrameIds, FrameUpdateData)

NextFrame == FrameCreate \/ FrameUpdate

SpecFrame == Init /\ [][NextFrame]_vars

----------------------------------------------------------------------------
(* Measures of a label table used to state the properties                  *)

(* The number of ancestors of a label, counted without the safety bound of *)
(* get_depth; a walk longer than the table (a cycle) counts as the size of *)
(* the table plus one.                                                     *)
RECURSIVE hops(_, _, _)
hops(L, current_parent, n) ==
  IF current_parent = NoParent \/ n > Cardinality(DOMAIN L) THEN n
  ELSE hops(L, L[current_parent].parent_id, n + 1)

depth_of(L, label_id) == hops(L, L[label_id].parent_id, 0)

(* The labels below a label (it is not one of them, unless on a cycle).    *)
RECURSIVE below(_, _, _)
below(L, frontier, seen) ==
  LET next == {i \in DOMAIN L : L[i].parent_id \in frontier} \ seen
  IN IF next = {} THEN seen ELSE below(L, next, seen \cup next)

descendants_of(L, label_id) == below(L, {label_id}, {})

(* The depth of the deepest label of the subtree of label_id once that     *)
(* label hangs under new_parent_id.                                        *)
depth_after_move(L, label_id, new_parent_id) ==
  depth_of(L, new_parent_id) + 1
  + SetMax({depth_of(L, i) - depth_of(L, label_id) :
              i \in descendants_of(L, label_id) \cup {label_id}})

TooDeep(err) == err.msg = LABEL_HIERARCHY_TOO_DEEP

----------------------------------------------------------------------------
(* C1: every persisted label has depth < 5 (a root has depth 0); a         *)
(* create_label under a parent at depth 4 or more, and an update_label     *)
(* that re-parents a label so that it or a label of its subtree would be   *)
(* at depth 5 or more, is rejected with the hierarchy-too-deep error and   *)
(* leaves the tables as they were.                                         *)
C1_DepthBelowMax ==
  /\ \A i \in DOMAIN labels : depth_of(labels, i) < 5
  /\ \A d \in DeepCreateData :
       ("parent_id" \in DOMAIN d /\ d.parent_id \in DOMAIN labels
        /\ depth_of(labels, d.parent_id) + 1 >= 5)
       => \A o \in create_label(labels, subs, 1, d) :
            TooDeep(o.err) /\ o.labels = labels /\ o.subs = subs
  /\ \A id \in DOMAIN labels, p \in DOMAIN labels :
       (p \notin descendants_of(labels, id) \cup {id}
        /\ depth_after_move(labels, id, p) >= 5)
       => \A o \in update_label(labels, subs, 1, id, [parent_id |-> p]) :
            TooDeep(o.err) /\ o.labels = labels /\ o.subs = subs

(* A re-parenting has just been rejected as too deep while a label sits at *)
(* depth 4.                                                                *)
C1_Witness ==
  /\ lastOp.op = "update_label"
  /\ TooDeep(lastOp.err)
  /\ \E i \in DOMAIN labels : depth_of(labels, i) = 4

(* A create has just been rejected as too deep.                            *)
C1_WitnessCreate ==
  lastOp.op = "create_label" /\ TooDeep(lastOp.err)

----------------------------------------------------------------------------
(* C2: the parent relation is a cycle-free forest (no label is below       *)
(* itself); update_label with parent_id equal to the label's own id or to  *)
(* the id of one of its descendants fails with the circular-reference      *)
(* error and leaves every parent link unchanged.                           *)
Circular(err) == err = Raise("LabelHierarchyError", CIRCULAR_REFERENCE)

C2_NoCycle ==
  /\ \A i \in DOMAIN labels : i \notin descendants_of(labels, i)
  /\ \A id \in DOMAIN labels, d \in TreeUpdateData :
       d.parent_id \in descendants_of(labels, id) \cup {id}
       => \A o \in update_label(labels, subs, 1, id, d) :
            Circular(o.err) /\ o.labels = labels

(* Entertainment > Movies > Action: a re-parenting has just been rejected  *)
(* as circular while some label has a grandchild to be moved under.        *)
C2_Witness ==
  /\ lastOp = Op("update_label", Raise("LabelHierarchyError", CIRCULAR_REFERENCE))
  /\ \E i \in DOMAIN labels : depth_of(labels, i) >= 2

----------------------------------------------------------------------------
(* Names equal ignoring case, stated letter by letter.                     *)
same_letter(a, b) ==
  \/ a = b
  \/ \E i \in 1..Len(LowerLetters) :
        {a, b} = {LowerLetters[i], UpperLetters[i]}

equal_ignoring_case(s, t) ==
  Len(s) = Len(t) /\ \A i \in 1..Len(s) : same_letter(s[i], t[i])

(* The labels of a user under a parent (NoParent: at root) whose name      *)
(* equals the given one ignoring case.                                     *)
siblings_named(L, user_id, parent_id, name) ==
  {i \in DOMAIN L : /\ L[i].user_id = user_id
                    /\ L[i].parent_id = parent_id
                    /\ equal_ignoring_case(L[i].name, name)}

(* C3: no two labels of the same user under the same parent (or both       *)
(* without parent) have names that are equal ignoring case.                *)
C3_SiblingNamesUnique ==
  \A i \in DOMAIN labels, j \in DOMAIN labels :
     (i # j /\ labels[i].user_id = labels[j].user_id
      /\ labels[i].parent_id = labels[j].parent_id)
     => ~equal_ignoring_case(labels[i].name, labels[j].name)

(* C4: create_label for user u with a name that equals, ignoring case, the *)
(* name of a label of u under the same parent (or both at root) fails with *)
(* DuplicateLabel and persists nothing; with no such label (the name used  *)
(* under another parent, or by another user) it is not a duplicate.        *)
Duplicate(err) == err = Raise("DuplicateLabelError", DUPLICATE_LABEL)

C4_CreateDuplicate ==
  \A u \in Users, d \in NameCreateData :
     \A o \in create_label(labels, subs, u, d) :
        IF siblings_named(labels, u, Get(d, "parent_id", NoParent), d.name) # {}
        THEN Duplicate(o.err) /\ o.labels = labels /\ o.subs = subs
        ELSE ~Duplicate(o.err)

(* A create has just been rejected as a duplicate while both users hold a  *)
(* label of that name at root, and one of them also holds it below a       *)
(* parent.                                                                 *)
C4_Witness ==
  /\ lastOp = Op("create_label", Raise("DuplicateLabelError", DUPLICATE_LABEL))
  /\ \E i \in DOMAIN labels, j \in DOMAIN labels :
        /\ labels[i].user_id # labels[j].user_id
        /\ labels[i].parent_id = NoParent /\ labels[j].parent_id = NoParent
        /\ equal_ignoring_case(labels[i].name, labels[j].name)

----------------------------------------------------------------------------
(* C5: delete_label on a non-system label with at least one child fails    *)
(* with the cannot-delete-label-with-children error; on a system label it  *)
(* fails with the system-label-read-only error, with or without children;  *)
(* in both cases no label is removed.  On a non-system label without       *)
(* children it removes that label and no other.                            *)
ReadOnly(err) == err = Raise("ValidationError", SYSTEM_LABEL_READONLY)
HasChildren(err) == err = Raise("ValidationError", CANNOT_DELETE_LABEL_WITH_CHILDREN)

C5_DeleteRules ==
  \A id \in DOMAIN labels :
     \A o \in delete_label(labels, subs, labels[id].user_id, id) :
        IF labels[id].system_label
        THEN ReadOnly(o.err) /\ o.labels = labels
        ELSE IF \E c \in DOMAIN labels : labels[c].parent_id = id
        THEN HasChildren(o.err) /\ o.labels = labels
        ELSE /\ o.err = NoError
             /\ DOMAIN o.labels = DOMAIN labels \ {id}
             /\ \A i \in DOMAIN o.labels : o.labels[i] = labels[i]

(* The delete of a system label has just been refused while there is a     *)
(* system label without children and a non-system label with a child.      *)
C5_Witness ==
  /\ lastOp = Op("delete_label", Raise("ValidationError", SYSTEM_LABEL_READONLY))
  /\ \E i \in DOMAIN labels :
        labels[i].system_label /\ \A c \in DOMAIN labels : labels[c].parent_id # i
  /\ \E i \in DOMAIN labels :
        ~labels[i].system_label /\ \E c \in DOMAIN labels : labels[c].parent_id = i

(* C6: update_label on a system label fails with the system-label-read-    *)
(* only error for every update data (empty, invalid, nonexistent parent)   *)
(* and changes nothing; no step of the label service changes or removes a  *)
(* system label.                                                           *)
C6_SystemLabelFrozen ==
  /\ [](\A id \in DOMAIN labels, d \in SysUpdateData :
          labels[id].system_label
          => \A o \in update_label(labels, subs, labels[id].user_id, id, d) :
               ReadOnly(o.err) /\ o.labels = labels /\ o.subs = subs)
  /\ [][\A id \in DOMAIN labels :
          labels[id].system_label
          => id \in DOMAIN labels' /\ labels'[id] = labels[id]]_vars

(* An update of a system label has just been refused; the system label has *)
(* a parent and a sibling that is not a system label.                      *)
C6_Witness ==
  /\ lastOp = Op("update_label", Raise("ValidationError", SYSTEM_LABEL_READONLY))
  /\ \E i \in DOMAIN labels, j \in DOMAIN labels :
        /\ labels[i].system_label /\ ~labels[j].system_label
        /\ labels[i].parent_id # NoParent

----------------------------------------------------------------------------
(* Ownership: ids that no table ever holds, and the not-found outcomes.     *)
AbsentLabelId == MaxOwnerLabels + 2
AbsentSubId == MaxOwnerSubs + 2

LabelNotFound(o) ==
  o = Outcome(Raise("LabelNotFoundError", LABEL_NOT_FOUND), labels, subs)
SubscriptionNotFound(o) ==
  o = Outcome(Raise("SubscriptionNotFoundError", SUBSCRIPTION_NOT_FOUND), labels, subs)

(* What a request of user u leaves alone: every label and subscription of  *)
(* another user is still there, as it was, in the outcome o.               *)
OthersUntouched(u, o) ==
  /\ \A id \in DOMAIN labels :
       labels[id].user_id # u => id \in DOMAIN o.labels /\ o.labels[id] = labels[id]
  /\ \A id \in DOMAIN subs :
       subs[id].user_id # u => id \in DOMAIN o.subs /\ o.subs[id] = subs[id]

C7_OthersUntouched ==
  \A u \in Users :
     /\ \A id \in OwnerLabelIds, d \in OwnerLabelRequests :
          \A o \in update_label(labels, subs, u, id, d) : OthersUntouched(u, o)
     /\ \A id \in OwnerLabelIds :
          \A o \in delete_label(labels, subs, u, id) : OthersUntouched(u, o)
     /\ \A d \in OwnerLabelCreateData :
          \A o \in create_label(labels, subs, u, d) : OthersUntouched(u, o)
     /\ \A id \in OwnerSubIds, d \in OwnerSubRequests :
          \A o \in update_subscription(labels, subs, u, id, d) : OthersUntouched(u, o)
     /\ \A id \in OwnerSubIds :
          \A o \in delete_subscription(labels, subs, u, id) : OthersUntouched(u, o)
     /\ \A d \in OwnerSubCreateData :
          \A o \in create_subscription(labels, subs, u, d) : OthersUntouched(u, o)

----------------------------------------------------------------------------
(* Calendar arithmetic used to state the calculator's properties           *)

EndOfMonth(x) == x.d = monthrange_days(x.y, x.m)

(* The month that lies `months` months after the month of x.               *)
TargetMonth(x, months) ==
  LET total == x.y * 12 + (x.m - 1) + months
  IN [year |-> total \div 12, month |-> (total % 12) + 1]

Min(a, b) == IF a < b THEN a ELSE b

(* The day the result must have in the target month t.                     *)
TargetDay(x, t) ==
  IF EndOfMonth(x) THEN monthrange_days(t.year, t.month)
  ELSE Min(x.d, monthrange_days(t.year, t.month))

AddMonthsCalled == calc.op = "_add_months" /\ calc.months \in CalcMonths

AddMonthsResult ==
  LET t == TargetMonth(calc.from, calc.months)
  IN /\ calc.err = NoError
     /\ IsDate(calc.date)
     /\ calc.date = Date(t.year, t.month, TargetDay(calc.from, t))

(* C8 as stated: for every valid start date and every months in {1, 2, 3,  *)
(* 12}, _add_months returns a valid date, in the month that is `months`    *)
(* months after the start month, on the last day of that month when the    *)
(* start date is the last day of its month and otherwise on min(start day, *)
(* days of the target month).                                              *)
C8_AddMonthsAlwaysADate == AddMonthsCalled => AddMonthsResult

(* C8 amended: the result is that date whenever the target month is no     *)
(* later than December of year MAXYEAR; for a later target month           *)
(* _add_months raises ValueError and returns nothing.                      *)
C8_AddMonthsWithinRange ==
  AddMonthsCalled
  => IF TargetMonth(calc.from, calc.months).year <= MAXYEAR
     THEN AddMonthsResult
     ELSE calc.err = Raise("ValueError", YEAR_OUT_OF_RANGE)

(* 2024-01-31 + 1 month has just given 2024-02-29.                         *)
C8_Witness ==
  /\ AddMonthsCalled
  /\ calc.from = Date(2024, 1, 31) /\ calc.months = 1
  /\ calc.err = NoError /\ calc.date = Date(2024, 2, 29)

(* 2024-11-15 + 2 months has just given 2025-01-15.                        *)
C8_WitnessCarry ==
  /\ AddMonthsCalled
  /\ calc.from = Date(2024, 11, 15) /\ calc.months = 2
  /\ calc.err = NoError /\ calc.date = Date(2025, 1, 15)

(* C9: when the chain of next-payment computations started on the last day *)
(* of a month, every date it reaches is the last day of its month.         *)
C9_EndOfMonthPreserved ==
  EndOfMonth(calc.origin) /\ calc.err = NoError => EndOfMonth(calc.date)

(* 2024-03-31 -> 2024-04-30 -> 2024-05-31 by two monthly computations.     *)
C9_Witness ==
  /\ calc.origin = Date(2024, 3, 31)
  /\ calc.op = "calculate_next_payment_date" /\ calc.freq = MONTHLY
  /\ calc.steps = 2
  /\ calc.from = Date(2024, 4, 30) /\ calc.date = Date(2024, 5, 31)

----------------------------------------------------------------------------
(* The months a frequency advances a date by.                              *)
MonthsOf(frequency) ==
  IF frequency = MONTHLY THEN 1 ELSE IF frequency = QUARTERLY THEN 3 ELSE 12

Advanced(sub) == _add_months(sub.initial_payment_date, MonthsOf(sub.payment_frequency)).date

Recomputes(data) ==
  "payment_frequency" \in DOMAIN data \/ "initial_payment_date" \in DOMAIN data

Failed(o) == o.err # NoError /\ o.labels = labels /\ o.subs = subs

(* C10: a subscription just created holds next_payment_date = its          *)
(* initial_payment_date advanced by the months of its frequency, whatever  *)
(* next_payment_date the request carried; after a successful update whose  *)
(* data has payment_frequency or initial_payment_date the same holds of    *)
(* the resulting initial date and frequency; a request with a frequency    *)
(* outside the three fails and leaves the tables as they were.             *)
C10_NextPaymentDateComputed ==
  /\ \A d \in SubsCreateData : \A o \in create_subscription(labels, subs, 1, d) :
       /\ o.err = NoError
          => /\ DOMAIN o.subs = DOMAIN subs \cup {new_subscription_id(subs)}
             /\ o.subs[new_subscription_id(subs)].initial_payment_date
                  = d.initial_payment_date
             /\ o.subs[new_subscription_id(subs)].payment_frequency = d.payment_frequency
             /\ o.subs[new_subscription_id(subs)].next_payment_date
                  = Advanced(o.subs[new_subscription_id(subs)])
       /\ d.payment_frequency \notin PaymentFrequency_all => Failed(o)
  /\ \A id \in DOMAIN subs, d \in SubsUpdateData :
       \A o \in update_subscription(labels, subs, 1, id, d) :
          /\ o.err = NoError /\ Recomputes(d)
             => o.subs[id].next_payment_date = Advanced(o.subs[id])
          /\ "payment_frequency" \in DOMAIN d
             /\ d.payment_frequency \notin PaymentFrequency_all
             => Failed(o)

(* A subscription created monthly from 2024-01-31 has just been updated to *)
(* quarterly and holds 2024-04-30, not 2024-02-29 advanced again.          *)
C10_Witness ==
  /\ lastOp = Op("update_subscription", NoError)
  /\ \E id \in DOMAIN subs :
       /\ subs[id].payment_frequency = QUARTERLY
       /\ subs[id].initial_payment_date = Jan31
       /\ subs[id].next_payment_date = Date(2024, 4, 30)

(* A create carrying next_payment_date 2030-06-10 has just succeeded and   *)
(* the subscription holds 2024-12-15.                                      *)
C10_WitnessCreate ==
  /\ lastOp = Op("create_subscription", NoError)
  /\ \E id \in DOMAIN subs :
       /\ subs[id].initial_payment_date = Nov15
       /\ subs[id].next_payment_date = Date(2024, 12, 15)

----------------------------------------------------------------------------
(* The invariants of a subscription object.                                *)
PriceValid(sub) == "price" \in DOMAIN sub /\ sub.price > 0
CurrencyValid(sub) == "currency" \in DOMAIN sub /\ sub.currency \in CurrencyConstants_all
CurrencyAccepted(sub) ==
  "currency" \in DOMAIN sub /\ upper(sub.currency) \in CurrencyConstants_all
StatusValid(sub) == "status" \in DOMAIN sub /\ sub.status \in SubscriptionStatus_all
FrequencyValid(sub) ==
  "payment_frequency" \in DOMAIN sub /\ sub.payment_frequency \in PaymentFrequency_all
DatesValid(sub) ==
  /\ "initial_payment_date" \in DOMAIN sub /\ "next_payment_date" \in DOMAIN sub
  /\ ~DateLess(sub.next_payment_date, sub.initial_payment_date)

SubscriptionValid(sub) ==
  /\ PriceValid(sub) /\ CurrencyValid(sub) /\ StatusValid(sub)
  /\ FrequencyValid(sub) /\ DatesValid(sub)

(* The object a request asks for: the values of the body over those held.  *)
Requested(sub, data) ==
  [k \in (DOMAIN sub \cup Given(data)) \ Nulls(data) |->
     IF k \in Given(data) THEN data[k] ELSE sub[k]]

(* A create request breaks an invariant by a value it gives; its           *)
(* next_payment_date is computed.  An update breaks one by the object it   *)
(* asks for; its dates count when they are not recomputed.                 *)
CreateBreaks(data) ==
  LET sub == Requested(<<>>, data)
  IN ~(PriceValid(sub) /\ CurrencyAccepted(sub) /\ StatusValid(sub) /\ FrequencyValid(sub))

UpdateBreaks(sub, data) ==
  LET req == Requested(sub, data)
  IN \/ ~(PriceValid(req) /\ CurrencyAccepted(req) /\ StatusValid(req) /\ FrequencyValid(req))
     \/ "initial_payment_date" \notin DOMAIN req
     \/ ~(InData(data, "payment_frequency") \/ InData(data, "initial_payment_date"))
        /\ ~DatesValid(req)

Rejected(o) == o.err.exc = "ValidationError" /\ o.labels = labels /\ o.subs = subs

(* Every persisted subscription has a positive price, a currency of the    *)
(* allowed set in upper case, an allowed status, an allowed frequency and  *)
(* a next_payment_date not before its initial_payment_date.                *)
PersistedSubscriptionsValid == \A id \in DOMAIN subs : SubscriptionValid(subs[id])

(* C11: every persisted subscription satisfies the invariants of a         *)
(* subscription, and a create (of a name not in use) or an update that     *)
(* would break one of them fails with ValidationError and persists         *)
(* nothing.                                                                *)
C11_ValidOrRejected ==
  /\ PersistedSubscriptionsValid
  /\ \A d \in ValidCreateData :
       CreateBreaks(d) /\ find_by_user_and_name(subs, 1, d.name) = {}
       => \A o \in create_subscription(labels, subs, 1, d) : Rejected(o)
  /\ \A id \in DOMAIN subs, d \in ValidUpdateData :
       UpdateBreaks(subs[id], d)
       => \A o \in update_subscription(labels, subs, 1, id, d) : Rejected(o)

----------------------------------------------------------------------------
(* The subscriptions of a user whose name equals the given one when case   *)
(* is ignored.                                                             *)
subscriptions_named(S, user_id, name) ==
  {i \in DOMAIN S : S[i].user_id = user_id /\ equal_ignoring_case(S[i].name, name)}

DuplicateSubscription(o) ==
  /\ o.err = Raise("DuplicateSubscriptionError", DUPLICATE_SUBSCRIPTION)
  /\ o.labels = labels /\ o.subs = subs

(* C12: no two subscriptions of one user have names equal ignoring case; a *)
(* create or a rename whose name is in use by another subscription of the  *)
(* user fails with DuplicateSubscription and persists nothing; the names   *)
(* in use by other users never make a create fail as a duplicate.          *)
C12_SubscriptionNamesUnique ==
  /\ \A i \in DOMAIN subs : subscriptions_named(subs, subs[i].user_id, subs[i].name) = {i}
  /\ \A u \in Users, d \in UniqueCreateData :
       \A o \in create_subscription(labels, subs, u, d) :
          /\ subscriptions_named(subs, u, d.name) # {} => DuplicateSubscription(o)
          /\ (\A i \in DOMAIN subs : subs[i].user_id # u) => o.err = NoError
  /\ \A id \in DOMAIN subs, d \in UniqueUpdateData :
       \A o \in update_subscription(labels, subs, subs[id].user_id, id, d) :
          subscriptions_named(subs, subs[id].user_id, d.name) \ {id} # {}
          => DuplicateSubscription(o)

----------------------------------------------------------------------------
(* An outcome with an error leaves the committed tables as they are.       *)
NothingCommitted(o) == o.err # NoError => o.labels = labels /\ o.subs = subs

(* The outcomes of every request of SpecAtomic in the current state.       *)
AtomicOutcomes ==
  UNION ({create_label(labels, subs, 1, d) : d \in AtomicLabelCreateData}
         \cup {update_label(labels, subs, 1, id, d) :
                 id \in AtomicLabelIds, d \in AtomicLabelRequests}
         \cup {delete_label(labels, subs, 1, id) : id \in AtomicLabelIds}
         \cup {create_subscription(labels, subs, 1, d) : d \in AtomicSubCreateData}
         \cup {update_subscription(labels, subs, 1, id, d) :
                 id \in AtomicSubIds, d \in AtomicSubRequests})

(* C13: when create_label, update_label, delete_label, create_subscription *)
(* or update_subscription fails, the committed labels, subscriptions and   *)
(* associations are what they were before the call, also when the call had *)
(* assigned a new parent, name, label list or field value before it        *)
(* failed.                                                                 *)
C13_FailureCommitsNothing ==
  /\ [](\A o \in AtomicOutcomes : NothingCommitted(o))
  /\ [][lastOp'.err # NoError => labels' = labels /\ subs' = subs]_vars

(* An update_subscription has just failed on the price after it had        *)
(* assigned a new label list: the session held the change, the tables do   *)
(* not.                                                                    *)
C13_Witness ==
  /\ lastOp = Op("update_subscription", Raise("ValidationError", PRICE_MUST_BE_POSITIVE))
  /\ \E id \in DOMAIN subs :
       \E o \in update_subscription(labels, subs, 1, id, [labels |-> {1}, price |-> 0]) :
          /\ o.err = lastOp.err
          /\ o.session.subs[id].labels = {1} /\ subs[id].labels = {}
          /\ o.subs = subs

(* An update_label has just failed as a duplicate after it had assigned a  *)
(* new parent.                                                             *)
C13_WitnessLabel ==
  /\ lastOp = Op("update_label", Raise("DuplicateLabelError", DUPLICATE_LABEL))
  /\ \E id \in DOMAIN labels, d \in AtomicLabelUpdateData :
       \E o \in update_label(labels, subs, 1, id, d) :
          /\ o.err = lastOp.err
          /\ o.session.labels[id].parent_id # labels[id].parent_id
          /\ o.labels = labels

----------------------------------------------------------------------------
(* The subscriptions associated with a label.                              *)
subscriptions_of(S, label_id) == {i \in DOMAIN S : label_id \in S[i].labels}

UsageIsLive(L, S, dict) ==
  dict.usage_count = Cardinality(subscriptions_of(S, dict.label_id))

(* C14: the usage_count of every label read, alone or in a list, is the    *)
(* number of subscriptions now associated with the label, and the          *)
(* usage_count of a label just created is 0.                               *)
C14_UsageCountLive ==
  /\ lastOp.op = "get_label_with_usage" /\ lastOp.err = NoError
     => UsageIsLive(labels, subs, lastOp.result)
  /\ lastOp.op = "get_labels_by_user_with_usage"
     => \A dict \in lastOp.result : UsageIsLive(labels, subs, dict)
  /\ \A u \in Users, d \in AssocLabelCreateData :
       \A o \in create_label(labels, subs, u, d) :
          o.err = NoError
          => get_label_with_usage(o.labels, o.subs, u, new_label_id(labels))
               .result.usage_count = 0

(* A label associated with a subscription has just been read with usage    *)
(* count 1.                                                                *)
C14_Witness ==
  /\ lastOp.op = "get_label_with_usage" /\ lastOp.err = NoError
  /\ lastOp.result.usage_count = 1
  /\ Cardinality(DOMAIN subs) = 1

----------------------------------------------------------------------------
(* The columns of the subscriptions, their label lists left out.           *)
subscription_fields(S) == [i \in DOMAIN S |-> [k \in DOMAIN S[i] \ {"labels"} |-> S[i][k]]]

(* The association rows that do not involve the subscription / the label.  *)
rows_without_subscription(S, subscription_id) ==
  {a \in subscription_labels(S) : a.subscription_id # subscription_id}

rows_without_label(S, label_id) == {a \in subscription_labels(S) : a.label_id # label_id}

(* C15: a successful delete_subscription removes the subscription and its  *)
(* association rows only, and leaves every label as it was; a successful   *)
(* delete_label removes the label and its association rows only, removes   *)
(* no subscription and changes no field of one.                            *)
C15_DeleteFrame ==
  /\ \A u \in Users, id \in AssocSubIds : \A o \in delete_subscription(labels, subs, u, id) :
        o.err = NoError
        => /\ DOMAIN o.subs = DOMAIN subs \ {id}
           /\ \A i \in DOMAIN o.subs : o.subs[i] = subs[i]
           /\ subscription_labels(o.subs) = rows_without_subscription(subs, id)
           /\ o.labels = labels
  /\ \A u \in Users, id \in AssocLabelIds : \A o \in delete_label(labels, subs, u, id) :
        o.err = NoError
        => /\ DOMAIN o.labels = DOMAIN labels \ {id}
           /\ \A i \in DOMAIN o.labels : o.labels[i] = labels[i]
           /\ subscription_labels(o.subs) = rows_without_label(subs, id)
           /\ subscription_fields(o.subs) = subscription_fields(subs)

(* Label 1 has just been deleted; the subscription is still there and      *)
(* still holds label 2.                                                    *)
C15_Witness ==
  /\ lastOp = Op("delete_label", NoError)
  /\ DOMAIN labels = {2}
  /\ 1 \in DOMAIN subs /\ subs[1].labels = {2}

(* Every association row joins a subscription with a label of its owner.   *)
AssociationsOwned ==
  \A a \in subscription_labels(subs) :
     /\ a.label_id \in DOMAIN labels
     /\ labels[a.label_id].user_id = subs[a.subscription_id].user_id

----------------------------------------------------------------------------
NotFoundErrors == {"LabelNotFoundError", "SubscriptionNotFoundError"}

BadRequestErrors ==
  {"ValidationError", "DuplicateLabelError", "LabelHierarchyError",
   "DuplicateSubscriptionError"}

(* C17: a request whose service call reports not-found is answered 404,    *)
(* and one whose service call reports a validation, duplicate or hierarchy *)
(* failure is answered 400; neither is answered 403 or 500.                *)
C17_StatusOfFailure ==
  lastOp.op # "none"
  => /\ lastOp.err.exc \in NotFoundErrors => lastOp.status = NOT_FOUND
     /\ lastOp.err.exc \in BadRequestErrors => lastOp.status = BAD_REQUEST

(* The same for every route but POST /labels.                              *)
C17_StatusOfFailureElsewhere == lastOp.op # "POST /labels" => C17_StatusOfFailure

----------------------------------------------------------------------------
(* The label ids of a list of label dicts.                                 *)
ids_of(dicts) == {dict.label_id : dict \in dicts}

(* The labels of a user, those without parent, and those under a parent.   *)
labels_of(u) == {i \in DOMAIN labels : labels[i].user_id = u}
roots_of(u) == {i \in labels_of(u) : labels[i].parent_id = NoParent}
children_of(u, p) == {i \in labels_of(u) : labels[i].parent_id # NoParent /\ labels[i].parent_id = p}

(* A numeric filter value: an optional sign and decimal digits, blanks     *)
(* around them allowed.                                                    *)
Numeric(param) ==
  LET t == strip(param)
      unsigned == IF t # <<>> /\ t[1] \in {"+", "-"} THEN Tail(t) ELSE t
  IN unsigned # <<>> /\ \A i \in 1..Len(unsigned) : is_digit(unsigned[i])

(* C18: GET /labels of user u answers with labels of u only: all of them   *)
(* without a parent_id argument, those whose parent is the id for a        *)
(* numeric argument, those without parent for 'null', and 400 for any      *)
(* other argument.                                                         *)
C18_ListByParent ==
  lastOp.op = "GET /labels"
  => LET u == lastOp.user_id
         args == lastOp.args
         listed == ids_of(lastOp.labels)
     IN /\ listed \subseteq labels_of(u)
        /\ \A dict \in lastOp.labels : dict.user_id = u
        /\ IF "parent_id" \notin DOMAIN args
           THEN lastOp.status = OK /\ listed = labels_of(u)
           ELSE IF args.parent_id = Null
           THEN lastOp.status = OK /\ listed = roots_of(u)
           ELSE IF Numeric(args.parent_id)
           THEN lastOp.status = OK /\ listed = children_of(u, int(args.parent_id).value)
           ELSE lastOp.status = BAD_REQUEST

(* User 1 has a root and a nested label and has just listed the children   *)
(* of label 1: the nested label alone.                                     *)
C18_Witness ==
  /\ lastOp.op = "GET /labels" /\ lastOp.user_id = 1
  /\ lastOp.args = [parent_id |-> <<"1">>]
  /\ ids_of(lastOp.labels) = {2}
  /\ roots_of(1) = {1}
  /\ labels_of(2) # {}

----------------------------------------------------------------------------
(* The normalized form of a color, step by step.                           *)
Trimmed(c) == strip(c)
Prefixed(c) == IF c # <<>> /\ c[1] = "#" THEN c ELSE <<"#">> \o c
Expanded(c) == IF Len(c) = 4 THEN <<c[1], c[2], c[2], c[3], c[3], c[4], c[4]>> ELSE c
Normalized(c) == Expanded(Prefixed(upper(Trimmed(c))))

(* #RRGGBB in upper case.                                                  *)
UpperHex == {"0", "1", "2", "3", "4", "5", "6", "7", "8", "9", "A", "B", "C", "D", "E", "F"}
IsRRGGBB(c) == Len(c) = 7 /\ c[1] = "#" /\ \A i \in 2..7 : c[i] \in UpperHex

Colored(c) == Label(1, NoParent, Work, c, FALSE)

FFFFFF == <<"#", "F", "F", "F", "F", "F", "F">>

(* A label with a color of its own, as create_label and update_label get   *)
(* it: the color of the request on the stored or new label.                *)
ColorRequests(L) ==
  {[create |-> TRUE, id |-> new_label_id(L), data |-> [name |-> Tv, color |-> c]] :
     c \in ColorsSent}
  \cup {[create |-> FALSE, id |-> i, data |-> [color |-> c]] :
          i \in DOMAIN L, c \in ColorsSent}

ColorOutcomes(L, S, r) ==
  IF r.create THEN create_label(L, S, 1, r.data) ELSE update_label(L, S, 1, r.id, r.data)

(* C19: validate_color replaces a non-empty color by its normalized form   *)
(* and succeeds exactly when that form is #RRGGBB in upper case; an empty  *)
(* or absent color fails with the color-required error; so every stored    *)
(* label has a color #RRGGBB in upper case, and '#fff', 'fff' and          *)
(* '  #fff  ' are stored as '#FFFFFF'.                                     *)
C19_ColorNormalized ==
  /\ \A c \in (ColorInputs \cup ColorsSent) \ {Empty} :
        /\ validate_color(Colored(c)).color = Normalized(c)
        /\ validate_color(Colored(c)).msg = "none" <=> IsRRGGBB(Normalized(c))
  /\ validate_color(Colored(Empty)).msg = LABEL_COLOR_REQUIRED
  /\ \A o \in create_label(labels, subs, 1, [name |-> Tv]) :
        o.err = Raise("ValidationError", LABEL_COLOR_REQUIRED)
  /\ \A c \in {<<"#", "f", "f", "f">>, <<"f", "f", "f">>,
               <<" ", " ", "#", "f", "f", "f", " ", " ">>} :
        validate_color(Colored(c)) = [msg |-> "none", color |-> FFFFFF]
  /\ \A i \in DOMAIN labels : IsRRGGBB(labels[i].color)
  /\ \A r \in ColorRequests(labels) : \A o \in ColorOutcomes(labels, subs, r) :
        o.err = NoError => o.labels[r.id].color = Normalized(r.data.color)
                           /\ IsRRGGBB(o.labels[r.id].color)

(* Label 1 has just been recoloured and holds an expanded upper-case       *)
(* color.                                                                  *)
C19_Witness ==
  /\ lastOp = Op("update_label", NoError)
  /\ 1 \in DOMAIN labels
  /\ labels[1].color = <<"#", "F", "F", "A", "A", "0", "0">>
  /\ labels[1].name = Play

----------------------------------------------------------------------------
(* A cost v equals the whole number n / the n-th part of p.                *)
IsWhole(v, n) == v.num = n * v.den
IsPart(v, p, n) == v.num * n = p * v.den

Divisor(f) == IF f = MONTHLY THEN 1 ELSE IF f = QUARTERLY THEN 3 ELSE 12

(* C20: monthly_cost is price, price / 3 and price / 12 and yearly_cost is *)
(* price * 12, price * 4 and price for monthly, quarterly and yearly; for  *)
(* a price divisible by the divisor yearly_cost is 12 times monthly_cost   *)
(* (yearly 120 costs 10 a month, monthly 10 costs 120 a year); any other   *)
(* frequency fails in both with the unknown-payment-frequency error.       *)
C20_Costs ==
  /\ lastOp.op \in {"monthly_cost", "yearly_cost"}
     => LET f == Frequency(lastOp.self)
            price == lastOp.self.price
        IN IF f \notin {MONTHLY, QUARTERLY, YEARLY}
           THEN lastOp.err = Raise("ValueError", UNKNOWN_PAYMENT_FREQUENCY)
           ELSE /\ lastOp.err = NoError
                /\ lastOp.op = "monthly_cost" => IsPart(lastOp.value, price, Divisor(f))
                /\ lastOp.op = "yearly_cost"
                   => IsWhole(lastOp.value, price * (12 \div Divisor(f)))
  /\ \A self \in CostSubscriptions :
        /\ Frequency(self) \in {MONTHLY, QUARTERLY, YEARLY}
        /\ self.price % Divisor(Frequency(self)) = 0
        => \E m \in 0..self.price :
              /\ IsWhole(monthly_cost(self).value, m)
              /\ IsWhole(yearly_cost(self).value, 12 * m)
  /\ IsWhole(monthly_cost([price |-> 120, payment_frequency |-> YEARLY]).value, 10)
  /\ IsWhole(yearly_cost([price |-> 10, payment_frequency |-> MONTHLY]).value, 120)

(* The monthly cost of a yearly subscription of 120 was just computed: 10. *)
C20_Witness ==
  /\ lastOp.op = "monthly_cost"
  /\ lastOp.self = [price |-> 120, payment_frequency |-> YEARLY]
  /\ lastOp.err = NoError /\ IsWhole(lastOp.value, 10)

----------------------------------------------------------------------------
(* The checks of a create request, in the order of the claim: the first    *)
(* that fails, as the exception it is reported with.                       *)
ParentNotOwned(L, u, d) ==
  /\ "parent_id" \in DOMAIN d /\ d.parent_id # NoParent
  /\ d.parent_id \notin DOMAIN L \/ L[d.parent_id].user_id # u

FirstFailure(L, u, d) ==
  IF siblings_named(L, u, Get(d, "parent_id", NoParent), d.name) # {}
  THEN Raise("DuplicateLabelError", DUPLICATE_LABEL)
  ELSE IF ParentNotOwned(L, u, d)
  THEN Raise("LabelNotFoundError", LABEL_NOT_FOUND)
  ELSE IF Trimmed(d.name) = Empty
  THEN Raise("ValidationError", LABEL_NAME_REQUIRED)
  ELSE IF d.color = Empty
  THEN Raise("ValidationError", LABEL_COLOR_REQUIRED)
  ELSE IF ~IsRRGGBB(Normalized(d.color))
  THEN Raise("ValidationError", INVALID_HEX_COLOR)
  ELSE IF "parent_id" \in DOMAIN d /\ depth_of(L, d.parent_id) + 1 >= 5
  THEN Raise("ValidationError", LABEL_HIERARCHY_TOO_DEEP)
  ELSE NoError

----------------------------------------------------------------------------
(* The update requests that supply both a parent and a name.               *)
MoveAndRename == {d \in NameUpdateData : {"parent_id", "name"} \subseteq DOMAIN d}

(* The labels other than the label itself that hold the name under the     *)
(* parent.                                                                 *)
others_named(L, u, id, parent_id, name) == siblings_named(L, u, parent_id, name) \ {id}

(* C22: update_label with both parent_id and name checks the name among    *)
(* the labels of the new parent, the label itself excluded: a collision    *)
(* there is a DuplicateLabel; a name that collides only under the old      *)
(* parent, or only with the label itself, is accepted.                     *)
C22_NameCheckedUnderNewParent ==
  \A u \in Users, id \in DOMAIN labels, d \in MoveAndRename :
     /\ labels[id].user_id = u
     /\ update_parent(labels, u, id, d).err = NoError
     => \A o \in update_label(labels, subs, u, id, d) :
           IF others_named(labels, u, id, d.parent_id, d.name) # {}
           THEN Duplicate(o.err) /\ o.labels = labels
           ELSE o.err = NoError /\ o.labels[id].parent_id = d.parent_id
                /\ o.labels[id].name = d.name

(* The same for the requests whose name differs, ignoring case, from the   *)
(* name the label has.                                                     *)
C22_NameCheckedWhenRenamed ==
  \A u \in Users, id \in DOMAIN labels, d \in MoveAndRename :
     /\ labels[id].user_id = u
     /\ update_parent(labels, u, id, d).err = NoError
     /\ ~equal_ignoring_case(labels[id].name, d.name)
     => \A o \in update_label(labels, subs, u, id, d) :
           IF others_named(labels, u, id, d.parent_id, d.name) # {}
           THEN Duplicate(o.err) /\ o.labels = labels
           ELSE o.err = NoError /\ o.labels[id].parent_id = d.parent_id
                /\ o.labels[id].name = d.name

----------------------------------------------------------------------------
(* A request body without one of its keys.                                 *)
Without(data, key) == [k \in DOMAIN data \ {key} |-> data[k]]

RequiredFields == {"price", "currency", "status", "payment_frequency", "initial_payment_date"}

(* A create request that is complete but for the field: it fails with      *)
(* ValidationError, is answered 400 and persists nothing.                  *)
MissingFieldRejected(field) ==
  LET data == Without(SubData(Work, MONTHLY, Jan31), field)
  IN /\ \A o \in create_subscription(labels, subs, 1, data) :
           o.err.exc = "ValidationError" /\ o.subs = subs /\ o.labels = labels
     /\ \A r \in api_create_subscription(labels, subs, 1, data) : r.status = BAD_REQUEST

(* C23: create_subscription without any one of price, currency, status,    *)
(* payment_frequency and initial_payment_date fails with ValidationError   *)
(* (400) and persists nothing.                                             *)
C23_MissingFieldIsValidationError == \A field \in RequiredFields : MissingFieldRejected(field)

(* The same for price, status and payment_frequency alone.                 *)
C23_MissingComparedFieldRejected ==
  \A field \in {"price", "status", "payment_frequency"} : MissingFieldRejected(field)

(* Without currency or without initial_payment_date an AttributeError      *)
(* leaves the service, the request is answered 500 and nothing is          *)
(* persisted.                                                              *)
C23_MissingDereferencedFieldEscapes ==
  \A field \in {"currency", "initial_payment_date"} :
     LET data == Without(SubData(Work, MONTHLY, Jan31), field)
     IN /\ \A o \in create_subscription(labels, subs, 1, data) :
              o.err.exc = "AttributeError" /\ o.subs = subs /\ o.labels = labels
        /\ \A r \in api_create_subscription(labels, subs, 1, data) :
              r.status = INTERNAL_SERVER_ERROR

----------------------------------------------------------------------------
(* The k-th label on the way up from a label: its parent for k = 1.        *)
RECURSIVE nth_parent(_, _, _)
nth_parent(L, label_id, k) ==
  IF k = 1 THEN L[label_id].parent_id
  ELSE L[nth_parent(L, label_id, k - 1)].parent_id

(* The way up from the label ends at a root.                               *)
Acyclic(L, label_id) == depth_of(L, label_id) <= Cardinality(DOMAIN L)

(* The ancestors of a label on an acyclic chain, direct parent first.      *)
chain_of(L, label_id) == [k \in 1..depth_of(L, label_id) |-> nth_parent(L, label_id, k)]

(* C24: on every parent graph, cyclic or not, get_depth returns at most    *)
(* MAX_HIERARCHY_DEPTH + 1 and get_ancestors at most that many labels; on  *)
(* an acyclic chain with at most MAX_HIERARCHY_DEPTH ancestors they return *)
(* the number of ancestors and the ancestors from the direct parent to the *)
(* root.                                                                   *)
C24_WalksBounded ==
  /\ lastOp.op = "get_depth" =>
       /\ lastOp.depth \in 0..(MAX_HIERARCHY_DEPTH + 1)
       /\ (Acyclic(labels, lastOp.label_id)
           /\ depth_of(labels, lastOp.label_id) <= MAX_HIERARCHY_DEPTH)
          => lastOp.depth = depth_of(labels, lastOp.label_id)
  /\ lastOp.op = "get_ancestors" =>
       /\ Len(lastOp.ancestors) <= MAX_HIERARCHY_DEPTH + 1
       /\ (Acyclic(labels, lastOp.label_id)
           /\ depth_of(labels, lastOp.label_id) <= MAX_HIERARCHY_DEPTH)
          => lastOp.ancestors = chain_of(labels, lastOp.label_id)

(* get_depth has answered the bound for a label on a cycle.                *)
C24_Witness ==
  /\ lastOp.op = "get_depth"
  /\ ~Acyclic(labels, lastOp.label_id)
  /\ lastOp.label_id \in descendants_of(labels, lastOp.label_id)
  /\ lastOp.depth = MAX_HIERARCHY_DEPTH + 1

(* get_ancestors has answered a chain of MAX_HIERARCHY_DEPTH ancestors.    *)
C24_WitnessChain ==
  /\ lastOp.op = "get_ancestors"
  /\ Acyclic(labels, lastOp.label_id)
  /\ Len(lastOp.ancestors) = MAX_HIERARCHY_DEPTH
  /\ lastOp.ancestors[MAX_HIERARCHY_DEPTH] \in DOMAIN labels
  /\ labels[lastOp.ancestors[MAX_HIERARCHY_DEPTH]].parent_id = NoParent

----------------------------------------------------------------------------
(* A label on a cycle of parents, or one with MAX_HIERARCHY_DEPTH or more  *)
(* ancestors.                                                              *)
OnCycle(L, label_id) == label_id \in descendants_of(L, label_id)
BrokenForest(L) ==
  \E i \in DOMAIN L : OnCycle(L, i) \/ depth_of(L, i) >= MAX_HIERARCHY_DEPTH

(* Both requests loaded before the other had saved.                        *)
Overlapped == \A r \in Requests : requests[r].behind = {}

(* C25: two concurrent update_label requests can both pass their checks    *)
(* and both be saved, leaving a cycle or a label at depth 5 or more; the   *)
(* forest is broken only that way: by two saved updates that each loaded   *)
(* before the other saved, each valid on the rows it had loaded.           *)
C25_BrokenOnlyByOverlap ==
  /\ \A r \in Requests :
        Saved(r) => \E o \in update_label(requests[r].loaded, subs, requests[r].user_id,
                                          requests[r].label_id, requests[r].data) :
                       o.err = NoError /\ o.labels[requests[r].label_id] = requests[r].row
  /\ BrokenForest(labels) => Overlapped /\ \A r \in Requests : Saved(r)

(* Both updates are saved and two labels are each other's parent.          *)
C25_Witness ==
  /\ \A r \in Requests : Saved(r)
  /\ \E a, b \in DOMAIN labels :
        a # b /\ labels[a].parent_id = b /\ labels[b].parent_id = a

(* Both updates are saved and a label has five ancestors on an acyclic     *)
(* chain.                                                                  *)
C25_WitnessDeep ==
  /\ \A r \in Requests : Saved(r)
  /\ \E i \in DOMAIN labels :
        Acyclic(labels, i) /\ depth_of(labels, i) >= MAX_HIERARCHY_DEPTH

----------------------------------------------------------------------------
(* Two labels of one user under one parent whose names are equal ignoring  *)
(* case.                                                                   *)
Twins(L) ==
  \E a, b \in DOMAIN L :
     /\ a # b
     /\ L[a].user_id = L[b].user_id
     /\ L[a].parent_id = L[b].parent_id
     /\ equal_ignoring_case(L[a].name, L[b].name)

(* C26: two concurrent create_label requests of one user for one parent    *)
(* and names equal ignoring case can both pass the duplicate check and     *)
(* both be saved; such a pair of labels arises only that way: from two     *)
(* saved creations that each loaded before the other saved, each free of   *)
(* duplicates on the rows it had loaded.                                   *)
C26_TwinsOnlyByOverlap ==
  /\ \A r \in Requests :
        Saved(r) => \E o \in create_label(requests[r].loaded, subs, requests[r].user_id,
                                          requests[r].data) :
                       /\ o.err = NoError
                       /\ o.labels[new_label_id(requests[r].loaded)] = requests[r].row
  /\ Twins(labels) => Overlapped /\ \A r \in Requests : Saved(r)

(* Both creations are saved and their labels stand side by side.           *)
C26_Witness ==
  /\ \A r \in Requests : Saved(r)
  /\ Get(requests[1].data, "parent_id", NoParent) = Get(requests[2].data, "parent_id", NoParent)
  /\ equal_ignoring_case(requests[1].data.name, requests[2].data.name)
  /\ \E a, b \in DOMAIN labels \ DOMAIN requests[1].loaded :
        /\ a # b
        /\ labels[a] = requests[1].row
        /\ labels[b] = requests[2].row
        /\ labels[a].parent_id = labels[b].parent_id
        /\ equal_ignoring_case(labels[a].name, labels[b].name)

----------------------------------------------------------------------------
(* The tables are as they were before the call.                            *)
NothingRegistered(o) == o.users = user_table /\ o.labels = labels

(* C27: register_user is all-or-nothing: when it raises, the database      *)
(* holds neither the new user nor any of its default labels, and the       *)
(* users there before are as they were.                                    *)
C27_AllOrNothing ==
  \A d \in RegisterRequests, default_labels \in DefaultLabelFiles :
     \A o \in register_user(user_table, labels, subs, d, default_labels) :
        o.err # NoError => NothingRegistered(o)

(* A call that raises before the loop over the default labels, or in its   *)
(* first round, leaves the tables as they were; whatever the call does,    *)
(* the users and labels there before are as they were.                     *)
C27_NothingUntilFirstSave ==
  \A d \in RegisterRequests, default_labels \in DefaultLabelFiles :
     \A o \in register_user(user_table, labels, subs, d, default_labels) :
        /\ (o.err.exc = "ValueError" \/ (o.err # NoError /\ Len(default_labels) = 1))
             => NothingRegistered(o)
        /\ \A i \in DOMAIN user_table : i \in DOMAIN o.users /\ o.users[i] = user_table[i]
        /\ \A i \in DOMAIN labels : i \in DOMAIN o.labels /\ o.labels[i] = labels[i]

(* A call that raises in a later round of the loop leaves the user and the *)
(* labels saved before that round.                                         *)
C27_PartlyRegistered ==
  \A d \in RegisterData :
     _check_username_availability(user_table, d.username) = "none"
     /\ _check_email_availability(user_table, d.email) = "none"
     => \A o \in register_user(user_table, labels, subs, d, <<DefaultWork, DefaultBad>>) :
           /\ o.err = Raise("ValidationError", INVALID_HEX_COLOR)
           /\ DOMAIN o.users = DOMAIN user_table \cup {new_label_id(user_table)}
           /\ DOMAIN o.labels = DOMAIN labels \cup {new_label_id(labels)}

----------------------------------------------------------------------------
(* The months a payment frequency stands for.                              *)
months_of(payment_frequency) ==
  IF payment_frequency = MONTHLY THEN 1
  ELSE IF payment_frequency = QUARTERLY THEN 3
  ELSE 12

NextPaymentDateCalled ==
  calc.op = "calculate_next_payment_date" /\ calc.freq \in PaymentFrequency_all

(* create_subscription with the date as initial_payment_date passes        *)
(* validate_dates and stores a next_payment_date after it.                 *)
DatesAccepted(initial) ==
  \A f \in PaymentFrequency_all :
     \A o \in create_subscription(labels, subs, 1, SubData(Tv, f, initial)) :
        /\ o.err.msg # NEXT_PAYMENT_DATE_BEFORE_INITIAL
        /\ o.err = NoError =>
             DateLess(initial, o.subs[new_subscription_id(subs)].next_payment_date)

(* C28: for every valid date and every frequency of monthly, quarterly and *)
(* yearly, calculate_next_payment_date(from_date) is strictly later than   *)
(* from_date.                                                              *)
C28_NextStrictlyLater ==
  NextPaymentDateCalled => calc.err = NoError /\ DateLess(calc.from, calc.date)

(* C28, within the range of dates: when the target month is no later than  *)
(* December 9999 the result is strictly later than from_date, otherwise    *)
(* the call raises ValueError; validate_dates never fails in               *)
(* create_subscription.                                                    *)
C28_NextLaterWithinRange ==
  /\ NextPaymentDateCalled
     => IF TargetMonth(calc.from, months_of(calc.freq)).year <= MAXYEAR
        THEN calc.err = NoError /\ DateLess(calc.from, calc.date)
        ELSE calc.err = Raise("ValueError", YEAR_OUT_OF_RANGE)
  /\ DatesAccepted(calc.from)

(* The yearly date after 2024-02-29 has just been computed: 2025-02-28.    *)
C28_Witness ==
  /\ NextPaymentDateCalled
  /\ calc.from = Date(2024, 2, 29) /\ calc.freq = YEARLY
  /\ calc.err = NoError /\ calc.date = Date(2025, 2, 28)
  /\ DateLess(calc.from, calc.date)

----------------------------------------------------------------------------
(* Update data naming the owner or the id of the subscription.             *)
KeyRequests ==
  {[user_id |-> u] : u \in Users}
  \cup {[subscription_id |-> i] : i \in 1..(MaxOwnerSubs + 1)}
  \cup {[user_id |-> u, price |-> 20] : u \in Users}

(* The subscription is held under the id and by the owner it had in S.     *)
SameOwnerAndId(S, T, i) ==
  /\ i \in DOMAIN T
  /\ T[i].user_id = S[i].user_id
  /\ "subscription_id" \in DOMAIN T[i] => T[i].subscription_id = i

(* C29: update_subscription never changes the user_id nor the              *)
(* subscription_id of a subscription, whatever keys the data holds.        *)
C29_OwnerAndIdKept ==
  \A u \in Users, id \in DOMAIN subs, d \in KeyRequests \cup OwnerSubRequests :
     \A o \in update_subscription(labels, subs, u, id, d) :
        \A i \in DOMAIN subs : SameOwnerAndId(subs, o.subs, i)

(* Data without the keys user_id and subscription_id leaves both as they   *)
(* were, in every subscription.                                            *)
C29_OwnerAndIdKeptWithoutKeys ==
  \A u \in Users, id \in DOMAIN subs, d \in OwnerSubRequests :
     \A o \in update_subscription(labels, subs, u, id, d) :
        \A i \in DOMAIN subs : SameOwnerAndId(subs, o.subs, i)

(* Data with the key user_id hands the subscription of the caller to the   *)
(* user named.                                                             *)
C29_OwnerAssigned ==
  \A u \in Users, id \in DOMAIN subs, v \in Users :
     subs[id].user_id = u
     => \A o \in update_subscription(labels, subs, u, id, [user_id |-> v]) :
           o.err = NoError /\ o.subs[id].user_id = v

----------------------------------------------------------------------------
(* Update data with keys of every kind, those naming the owner, the id and *)
(* the system flag included.                                               *)
FrameRequests ==
  FrameUpdateData
  \cup {NoData, [name |-> Blank], [color |-> NotAColor]}
  \cup {[system_label |-> TRUE], [system_label |-> FALSE], [user_id |-> 2], [label_id |-> 1],
        [name |-> Play, color |-> Black, user_id |-> 2, system_label |-> TRUE]}
  \cup {[parent_id |-> p, label_id |-> MaxFrameLabels + 1, system_label |-> TRUE] : p \in FrameIds}

(* C30: update_label changes at most the name, the color and the parent of *)
(* the target label: never its user_id, label_id or system_label, nor any  *)
(* other label, whatever keys the data holds; an attribute whose key is    *)
(* absent stays as it was, the color up to its normalized form.            *)
C30_UpdateFrame ==
  \A u \in Users, id \in FrameIds, d \in FrameRequests :
     \A o \in update_label(labels, subs, u, id, d) :
        /\ DOMAIN o.labels = DOMAIN labels
        /\ o.subs = subs
        /\ \A i \in DOMAIN labels \ {id} : o.labels[i] = labels[i]
        /\ id \in DOMAIN labels =>
             /\ o.labels[id].user_id = labels[id].user_id
             /\ o.labels[id].system_label = labels[id].system_label
             /\ "name" \notin DOMAIN d => o.labels[id].name = labels[id].name
             /\ "parent_id" \notin DOMAIN d => o.labels[id].parent_id = labels[id].parent_id
             /\ "color" \notin DOMAIN d =>
                  o.labels[id].color \in {labels[id].color, Normalized(labels[id].color)}

(* A label has been renamed beside another label, which is as created.     *)
C30_Witness ==
  /\ lastOp = Op("update_label", NoError)
  /\ \E i, j \in DOMAIN labels :
        /\ i # j
        /\ labels[i].name = Play /\ labels[i].user_id = 1
        /\ labels[j].name = Work

====
